---- MODULE Spec2Model ----
(***************************************************************************)
(* Element resolution and caching protocol of combo_e2e:                   *)
(*   - ElementDescriptor.__get__ / _search_element  (lazy cached binding)  *)
(*   - WebElementProxy and catch_not_attach_to_session (staleness retry)   *)
(*   - AbstractBasePage / BasePage navigation (cache invalidation)         *)
(* The browser (DOM, tabs, faults) is the environment.                     *)
(***************************************************************************)
EXTENDS Integers, Sequences, FiniteSets, TLC

\* ---------------------------------------------------------------- bounds
MaxMatch == 1      \* elements one locator matches at a time
MaxHandles == 1    \* WebElementProxy objects created in one run
MaxTabs == 2       \* browser tabs open at a time
\* bounds on the header markup handed to the parser
MaxRows == 2
MaxCells == 2

\* ------------------------------------------------------ declared page
\* The page class of tests/test_pages/test_base_navigation.py:
\*   element  = ElementDescriptor(value='a')            (many=False)
\*   elements = ElementDescriptor(value='c', many=True)
Slots == {"element", "elements"}
many(s) == s = "elements"
value(s) == IF s = "element" THEN "a" ELSE "c"
Locators == {"a", "c"}

NoName == ""                              \* attr_name = None
Marker == "Object didnt attach to Page"   \* base_attributes.py:187

PageUrl == "/page"
Urls == {"/page", "/elsewhere"}
valid_urls == {"/page"}

\* the loader classes BasePageMeta takes from the class or the app config
LoaderClasses == {"page_loader_css_class", "table_loader_css_class"}

\* Python's None as an argument, and the values `not x` holds for
None == "None"
Falsy(x) == x \in {None, ""}
\* no call, no result
Nothing == [exc |-> "nothing"]

NoneVal == [kind |-> "none", hs |-> <<>>]
One(h) == [kind |-> "one", hs |-> <<h>>]
ManyOf(hs) == [kind |-> "many", hs |-> hs]

VARIABLES
  dom,           \* browser: locator -> number of elements it matches now
  tabs,          \* browser: number of open windows (window_handles, in opening order)
  focus,         \* browser: position of the window the session is focused on
  opened_url,    \* browser: current_url of the focused window
  proxies,       \* heap of WebElementProxy objects; a handle is an index
  cached_attrs,  \* page._cached_attrs: slot name -> value
  loaders,       \* the loader css classes the page class has a non-empty value for
  head_search_attrs, \* Table._head_search_attrs: the attributes the header parse tracks
  page_dict,     \* page.__dict__: the bindings set on the page instance, by name
  invoked,       \* a constructor or function called on its own, with its arguments
                 \* (for the page classes: the class statements run so far)
  outcome        \* what that call returned or raised (Nothing before it ran)
                 \* (for the page classes: the classes made; for two page
                 \* objects: their caches and the objects of their class)

pagevars == <<dom, tabs, focus, opened_url, proxies, cached_attrs, loaders,
              head_search_attrs, page_dict>>
vars == <<dom, tabs, focus, opened_url, proxies, cached_attrs, loaders,
          head_search_attrs, page_dict, invoked, outcome>>

\* ------------------------------------------------------------ browser
\* A raw WebElement is <<locator, age, index>>: the index-th match of the
\* locator in its current rendering (age 0) or in an earlier one (age 1).
\* It is attached to the document while its age is 0; a re-rendering of its
\* locator detaches it for good.
IsLive(e) == e[2] = 0
Older(t, Ls) == IF Len(t) = 3 /\ t[1] \in Ls THEN <<t[1], 1, t[3]>> ELSE t
\* the application renders the elements of locators Ls anew: every reference
\* held anywhere (proxies, a bound method, the log) is one rendering older
Rendered(w, Ls) ==
  [w EXCEPT !.proxies = [i \in 1..Len(@) |-> [@[i] EXCEPT !.obj = Older(@, Ls)]],
            !.bound = Older(@, Ls),
            !.calls = [i \in 1..Len(@) |-> [@[i] EXCEPT !.t = Older(@, Ls)]]]

current_url(w) == w.url
\* elements one locator can match: "a" names a unique element
Matches(L) == IF L = "a" THEN 0..1 ELSE 0..MaxMatch
\* a new document in the focused window: every earlier element is detached
NewDocument(w) == Rendered(w, DOMAIN w.dom)

\* --------------------------------------------- results and the call log
\* An operation runs on a world w: the program and browser state, the log of
\* the browser calls it has made so far (calls), whether it has emptied the
\* cache (nav) and the raw element a forwarded method is bound to (bound).
\* It ends in a result: the world it leaves, the exception it raises ("none"
\* when it returns), the element named by a WebElementProxyException, and the
\* value returned.  Where the browser decides, an operator yields the set of
\* the results it can end in.
Ret(w, exc, el, val) == [w |-> w, exc |-> exc, el |-> el, val |-> val]
Ok(w) == Ret(w, "none", "", NoneVal)
Raise(w, exc) == Ret(w, exc, "", NoneVal)
Log(w, c, t, r) == [w EXCEPT !.calls = Append(@, [c |-> c, t |-> t, r |-> r])]

\* subclasses of WebDriverException that reach `except WebDriverException`
WebDriverExceptions == {"WebDriverException", "TimeoutException"}

\* ------------------------------------------------- remote element calls
\* raw commands that look an element up and so can fail with "no such element"
Lookups == {"find_element"}

\* One command on raw element e (WebElement.click, get_attribute, text,
\* find_element).  A detached element answers "stale element reference"; an
\* attached one may have been re-rendered just before the command arrives
\* (logged as the application's "rerender"); any command can fail in the
\* transport.
RawOp(w, e, name) ==
  {Raise(Log(w, name, e, "other"), "WebDriverException")}
  \cup (IF IsLive(e)
        THEN {Ok(Log(w, name, e, "ok")),
              Raise(Rendered(Log(Log(w, "rerender", <<e[1]>>, "env"), name, e, "stale"),
                             {e[1]}),
                    "StaleElementReferenceException")}
             \cup (IF name \in Lookups
                   THEN {Raise(Log(w, name, e, "notfound"), "NoSuchElementException")}
                   ELSE {})
        ELSE {Raise(Log(w, name, e, "stale"), "StaleElementReferenceException")})

\* A click that went through may open one or more tabs (a link with
\* target=_blank); the session stays focused on the window it was in.
\* window_handles lists the windows in the order they were opened.
BrowserMayOpenTab(w) ==
  {Ok(w)} \cup {Ok(Log([w EXCEPT !.tabs = @ + k], "opens_tabs", <<k>>, "env"))
               : k \in 1..(MaxTabs - w.tabs)}

\* WebDriverWait.until(condition(locator)): the condition looks the locator up
\* itself on every poll; the wait ends with the condition met or a timeout.
WaitUntil(w, name, t) ==
  {Ok(Log(w, name, t, "ok")), Raise(Log(w, name, t, "timeout"), "TimeoutException")}

\* driver.find_element(by, value): the first match, or NoSuchElementException
driver_find_element(w, L, who) ==
  IF w.dom[L] >= 1
  THEN Ret(Log(w, who, <<L>>, "ok"), "none", "", <<L, 0, 1>>)
  ELSE Raise(Log(w, who, <<L>>, "notfound"), "NoSuchElementException")

\* driver.find_elements(by, value): every match in document order, maybe none
driver_find_elements(w, L, who) ==
  Ret(Log(w, who, <<L>>, "ok"), "none", "", [i \in 1..w.dom[L] |-> <<L, 0, i>>])

\* driver.get(url): the focused window loads url
driver_get(w, url) ==
  Ok(Log(NewDocument([w EXCEPT !.url = url]), "get", <<url>>, "ok"))

\* ------------------------------------------------------------ the page
\* AbstractBasePage._find_element: `if not element` never holds for what
\* driver.find_element returns, so a missing element is the driver's error.
page_find_element(w, L, who) == driver_find_element(w, L, who)

\* _find_elements that returns an empty result as it is
page_find_elements_allows_empty(w, L, who) == driver_find_elements(w, L, who)
\* AbstractBasePage._find_elements: an empty result is a BasePageException
page_find_elements(w, L, who) ==
  LET r == driver_find_elements(w, L, who)
  IN IF Len(r.val) = 0 THEN Raise(r.w, "BasePageException") ELSE r

\* BasePage.check_opened: the focused window shows one of the page's urls
check_opened(w) ==
  IF current_url(w) \in valid_urls THEN Ok(w) ELSE Raise(w, "PageNotOpened")

\* WebElementProxy.__init__: a new proxy object on the heap
NewProxy(w, e, L, name) ==
  [w EXCEPT !.proxies = Append(@, [obj |-> e, locator |-> L, attr_name |-> name])]

ClearCache(w) == [w EXCEPT !.cached_attrs = [s \in DOMAIN @ |-> NoneVal], !.nav = TRUE]

\* ElementDescriptor._search_element
search_element(w, s) ==
  IF many(s)
  THEN LET r == page_find_elements(w, value(s), "find_elements")
           n == Len(r.val)
           base == Len(w.proxies)
       IN IF r.exc # "none" THEN r
          ELSE Ret([r.w EXCEPT !.proxies = @ \o
                       [i \in 1..n |-> [obj |-> r.val[i], locator |-> value(s), attr_name |-> s]]],
                   "none", "", ManyOf([i \in 1..n |-> base + i]))
  ELSE LET r == page_find_element(w, value(s), "find_element")
       IN IF r.exc # "none" THEN r
          ELSE Ret(NewProxy(r.w, r.val, value(s), s), "none", "", One(Len(w.proxies) + 1))

\* ElementDescriptor.__get__ that searches on every access
descriptor_get_always_searches(w, s) ==
  LET co == check_opened(w)
  IN IF co.exc # "none" THEN co
     ELSE LET r == search_element(w, s)
          IN IF r.exc # "none" THEN r
             ELSE Ret([r.w EXCEPT !.cached_attrs[s] = r.val], "none", "", r.val)
\* ElementDescriptor.__get__ that looks into the cache before it checks the url
descriptor_get_cache_first(w, s) ==
  IF w.cached_attrs[s].kind # "none" THEN Ret(w, "none", "", w.cached_attrs[s])
  ELSE LET co == check_opened(w)
       IN IF co.exc # "none" THEN co
          ELSE LET r == search_element(w, s)
               IN IF r.exc # "none" THEN r
                  ELSE Ret([r.w EXCEPT !.cached_attrs[s] = r.val], "none", "", r.val)
\* ElementDescriptor.__get__
descriptor_get(w, s) ==
  LET co == check_opened(w)
  IN IF co.exc # "none" THEN co
     ELSE IF w.cached_attrs[s].kind = "none"
     THEN LET r == search_element(w, s)
          IN IF r.exc # "none" THEN r
             ELSE Ret([r.w EXCEPT !.cached_attrs[s] = r.val], "none", "", r.val)
     ELSE Ret(w, "none", "", w.cached_attrs[s])

\* AbstractBasePage.find_element: a one-off proxy with no attr_name
find_element(w, L) ==
  LET r == page_find_element(w, L, "find_element")
  IN IF r.exc # "none" THEN r
     ELSE Ret(NewProxy(r.w, r.val, L, NoName), "none", "", One(Len(w.proxies) + 1))

\* AbstractBasePage.find_elements: one-off proxies with no attr_name
find_elements(w, L) ==
  LET r == page_find_elements(w, L, "find_elements")
      n == Len(r.val)
      base == Len(w.proxies)
  IN IF r.exc # "none" THEN r
     ELSE Ret([r.w EXCEPT !.proxies = @ \o
                  [i \in 1..n |-> [obj |-> r.val[i], locator |-> L, attr_name |-> NoName]]],
              "none", "", ManyOf([i \in 1..n |-> base + i]))
\* reload_element that empties the cache as a navigation does
reload_element_empties_cache(w, el) ==
  IF el.kind \notin {"one", "many"} THEN Raise(w, "BasePageException")
  ELSE LET p == w.proxies[el.hs[1]]
           w1 == [w EXCEPT !.cached_attrs = [s \in DOMAIN @ |-> NoneVal]]
       IN IF el.kind = "many" THEN find_elements(w1, p.locator)
          ELSE find_element(w1, p.locator)
\* AbstractBasePage.reload_element(el): el is a handle or a non-empty list of
\* handles; anything else is no WebElementProxy
reload_element(w, el) ==
  IF el.kind \notin {"one", "many"} THEN Raise(w, "BasePageException")
  ELSE LET p == w.proxies[el.hs[1]]
           w1 == IF p.attr_name # NoName
                 THEN [w EXCEPT !.cached_attrs[p.attr_name] = NoneVal]
                 ELSE w
       IN IF el.kind = "many" THEN find_elements(w1, p.locator)
          ELSE find_element(w1, p.locator)

\* AbstractBasePage._close_tabs (switch to each of the other windows and
\* close it), then switch_to.window(tab_to_focus).  The window kept is the
\* only one left, so it is window 1 afterwards; when it is not the window the
\* session was in, the session sees another document, at whatever url that
\* window shows.
CloseAllBut(w, keep) ==
  LET closed == SelectSeq([i \in 1..w.tabs |-> i], LAMBDA i : i # keep)
      w1 == [w EXCEPT !.calls = @ \o [k \in 1..(2 * Len(closed)) |->
                IF k % 2 = 1
                THEN [c |-> "switch_to", t |-> <<closed[(k + 1) \div 2]>>, r |-> "ok"]
                ELSE [c |-> "close", t |-> <<closed[k \div 2]>>, r |-> "ok"]]]
      w2 == Log([w1 EXCEPT !.tabs = 1, !.focus = 1], "switch_to", <<keep>>, "ok")
  IN IF keep = w.focus THEN {Ok(w2)}
     ELSE {Ok(NewDocument([w2 EXCEPT !.url = u])) : u \in Urls}

\* focus_on_last_opened_tab that keeps the cache
focus_on_last_keeps_cache(w) ==
  IF w.tabs > 1 THEN CloseAllBut(w, w.tabs) ELSE {Ok(w)}
\* focus_on_last_opened_tab without the test of the number of windows
focus_on_last_unguarded(w) == CloseAllBut(ClearCache(w), w.tabs)
\* AbstractBasePage.focus_on_last_opened_tab
focus_on_last_opened_tab(w) ==
  IF w.tabs > 1 THEN CloseAllBut(ClearCache(w), w.tabs) ELSE {Ok(w)}

\* AbstractBasePage.focus_on_first_opened_tab
focus_on_first_opened_tab(w) ==
  IF w.tabs > 1 THEN CloseAllBut(ClearCache(w), 1) ELSE {Ok(w)}

\* BasePage.wait_loader_not_visible: waits when the class is configured
wait_loader_not_visible(w) ==
  IF "page_loader_css_class" \in w.loaders
  THEN WaitUntil(w, "wait_loader_not_visible", <<>>) ELSE {Ok(w)}
\* BasePage.wait_tableloader_not_visible: waits when the class is configured
wait_tableloader_not_visible(w) ==
  IF "table_loader_css_class" \in w.loaders
  THEN WaitUntil(w, "wait_tableloader_not_visible", <<>>) ELSE {Ok(w)}

\* wait_loaders_hidden that waits for the table loader first
wait_loaders_table_first(w) ==
  UNION {IF a.exc # "none" THEN {a} ELSE wait_loader_not_visible(a.w)
         : a \in wait_tableloader_not_visible(w)}
\* AbstractBasePage.wait_loaders_hidden
wait_loaders_hidden(w) ==
  UNION {IF a.exc # "none" THEN {a} ELSE wait_tableloader_not_visible(a.w)
         : a \in wait_loader_not_visible(w)}

\* AbstractBasePage.open_redirect_url
open_redirect_url(w, url) == driver_get(ClearCache(w), url)

\* open that empties the cache before it looks the url up
open_empties_cache_first(w, custom_url) ==
  IF custom_url # "None" /\ custom_url \notin valid_urls
  THEN {Raise(ClearCache(w), "PageNotOpened")}
  ELSE wait_loaders_hidden(
         driver_get(ClearCache(w), IF custom_url = "None" THEN PageUrl ELSE custom_url).w)
\* BasePage.open: _make_valid_url, _open (has_page_ready_script is off, so
\* wait_page_loaded waits for nothing), wait_loaders_hidden
open(w, custom_url) ==
  IF custom_url # "None" /\ custom_url \notin valid_urls
  THEN {Raise(w, "PageNotOpened")}
  ELSE wait_loaders_hidden(
         driver_get(ClearCache(w), IF custom_url = "None" THEN PageUrl ELSE custom_url).w)

\* ------------------------------------------------------ WebElementProxy
\* names defined by class WebElementProxy itself (get_subclass_attributes)
ProxyAttrs == {"page", "_obj", "locator", "attr_name", "value", "until", "until_not",
               "click", "click_and_wait", "page_wait", "_reload_target_object"}
proxy_has_attr(name) == name \in ProxyAttrs
\* attributes that are properties: reading one evaluates it on the spot
Properties == {"value", "text"}

\* _reload_target_object that does not put the handle back into the cache
reload_forgets_slot(w, h) ==
  LET p == w.proxies[h]
      w1 == IF p.attr_name # NoName /\ w.cached_attrs[p.attr_name].kind # "none"
            THEN [w EXCEPT !.cached_attrs[p.attr_name] = NoneVal]
            ELSE w
      r == page_find_element(w1, p.locator, "reload")
  IN IF r.exc # "none" THEN r ELSE Ok([r.w EXCEPT !.proxies[h].obj = r.val])
\* _reload_target_object that stores the handle under its attr_name even
\* when it has none
reload_registers_unnamed(w, h) ==
  LET p == w.proxies[h]
      w1 == IF p.attr_name # NoName /\ w.cached_attrs[p.attr_name].kind # "none"
            THEN [w EXCEPT !.cached_attrs[p.attr_name] = NoneVal]
            ELSE w
      r == page_find_element(w1, p.locator, "reload")
  IN IF r.exc # "none" THEN r
     ELSE Ok([r.w EXCEPT !.proxies[h].obj = r.val,
                         !.cached_attrs =
                           [s \in DOMAIN @ \cup {p.attr_name} |->
                              IF s = p.attr_name THEN One(h) ELSE @[s]]])
\* _reload_target_object that takes what a one-off page.find_element makes, a
\* proxy with no attr_name, for the handle
reload_as_one_off_find(w, h) ==
  LET p == w.proxies[h]
      w1 == IF p.attr_name # NoName /\ w.cached_attrs[p.attr_name].kind # "none"
            THEN [w EXCEPT !.cached_attrs[p.attr_name] = NoneVal]
            ELSE w
      r == page_find_element(w1, p.locator, "reload")
  IN IF r.exc # "none" THEN r
     ELSE LET w2 == [r.w EXCEPT !.proxies[h] =
                       [obj |-> r.val, locator |-> p.locator, attr_name |-> NoName]]
          IN Ok(IF p.attr_name # NoName
                THEN [w2 EXCEPT !.cached_attrs[p.attr_name] = One(h)]
                ELSE w2)
\* a re-resolution that takes the slot out of the cache only once the query
\* has found the element
reload_pops_on_success(w, h) ==
  LET p == w.proxies[h]
      r == page_find_element(w, p.locator, "reload")
  IN IF r.exc # "none" THEN r
     ELSE LET w2 == [r.w EXCEPT !.proxies[h].obj = r.val]
          IN Ok(IF p.attr_name # NoName
                THEN [w2 EXCEPT !.cached_attrs[p.attr_name] = One(h)]
                ELSE w2)
\* WebElementProxy._reload_target_object
reload_target_object(w, h) ==
  LET p == w.proxies[h]
      w1 == IF p.attr_name # NoName /\ w.cached_attrs[p.attr_name].kind # "none"
            THEN [w EXCEPT !.cached_attrs[p.attr_name] = NoneVal]
            ELSE w
      r == page_find_element(w1, p.locator, "reload")
  IN IF r.exc # "none" THEN r
     ELSE LET w2 == [r.w EXCEPT !.proxies[h].obj = r.val]
          IN Ok(IF p.attr_name # NoName
                THEN [w2 EXCEPT !.cached_attrs[p.attr_name] = One(h)]
                ELSE w2)

\* WebElementProxy.until(condition)
until(w, h) == WaitUntil(w, "until", <<w.proxies[h].locator>>)

RECURSIVE catch_not_attach_to_session(_, _, _)
RECURSIVE call(_, _)
RECURSIVE getattribute(_, _, _, _)
RECURSIVE click(_, _, _)
RECURSIVE click_and_wait(_, _, _)

\* a wrapper that recovers from "no such element" as it does from staleness
catch_retries_not_found(w, h, function) ==
  UNION {
    CASE a1.exc \in {"StaleElementReferenceException", "NoSuchElementException"} ->
           UNION {IF rl.exc # "none" THEN {rl} ELSE call(rl.w, function)
                  : rl \in getattribute(a1.w, h, "_reload_target_object", FALSE)}
      [] a1.exc \in WebDriverExceptions ->
           {Ret(a1.w, "WebElementProxyException",
                IF w.proxies[h].attr_name # NoName THEN w.proxies[h].attr_name ELSE Marker,
                NoneVal)}
      [] OTHER -> {a1}
    : a1 \in call(w, function)}
\* catch_not_attach_to_session(current_obj)(function)(): `function` is the
\* bound method the wrapper was built around
catch_not_attach_to_session(w, h, function) ==
  UNION {
    CASE a1.exc = "StaleElementReferenceException" ->
           UNION {IF rl.exc # "none" THEN {rl} ELSE call(rl.w, function)
                  : rl \in getattribute(a1.w, h, "_reload_target_object", FALSE)}
      [] a1.exc = "NoSuchElementException" -> {a1}
      [] a1.exc \in WebDriverExceptions ->
           {Ret(a1.w, "WebElementProxyException",
                IF w.proxies[h].attr_name # NoName THEN w.proxies[h].attr_name ELSE Marker,
                NoneVal)}
      [] OTHER -> {a1}
    : a1 \in call(w, function)}

\* calling a bound method: of proxy fn.h, or of the raw element it was bound
\* to when the attribute was read (w.bound)
call(w, fn) ==
  CASE fn.name = "click" -> click(w, fn.h, fn.f)
    [] fn.name = "click_and_wait" -> click_and_wait(w, fn.h, fn.f)
    [] fn.name = "until" -> until(w, fn.h)
    [] fn.name = "_reload_target_object" -> {reload_target_object(w, fn.h)}
    [] OTHER -> RawOp(w, w.bound, fn.name)

\* WebElementProxy.__getattribute__(name), followed by the call when the
\* attribute is a method (f is the focus_on_opened_tab argument of the clicks)
getattribute(w, h, name, f) ==
  IF name = "value" THEN RawOp(w, w.proxies[h].obj, "get_attribute")
  ELSE IF name \in Properties THEN RawOp(w, w.proxies[h].obj, name)
  ELSE IF proxy_has_attr(name)
  THEN catch_not_attach_to_session(w, h, [name |-> name, h |-> h, f |-> f])
  ELSE catch_not_attach_to_session([w EXCEPT !.bound = w.proxies[h].obj], h,
                                   [name |-> name, h |-> h, f |-> f])

\* click that leaves the opened tabs alone
click_never_focuses(w, h, focus_on_opened_tab) ==
  UNION {
    IF u.exc # "none" THEN {u}
    ELSE UNION {
           IF c.exc # "none" THEN {c} ELSE BrowserMayOpenTab(c.w)
           : c \in RawOp(u.w, u.w.proxies[h].obj, "click")}
    : u \in getattribute(w, h, "until", FALSE)}
\* WebElementProxy.click
click(w, h, focus_on_opened_tab) ==
  UNION {
    IF u.exc # "none" THEN {u}
    ELSE UNION {
           IF c.exc # "none" THEN {c}
           ELSE UNION {IF focus_on_opened_tab THEN focus_on_last_opened_tab(t.w) ELSE {t}
                       : t \in BrowserMayOpenTab(c.w)}
           : c \in RawOp(u.w, u.w.proxies[h].obj, "click")}
    : u \in getattribute(w, h, "until", FALSE)}

\* WebElementProxy.click_and_wait
click_and_wait(w, h, focus_on_opened_tab) ==
  UNION {IF c.exc # "none" THEN {c} ELSE wait_loaders_hidden(c.w)
         : c \in getattribute(w, h, "click", focus_on_opened_tab)}

\* ------------------------------------------------- parsing a table header
\* An element of the parsed markup: its tag, its own text (None when the
\* element has no text before its first child), its own attributes and its
\* child elements. The markup is given as the fragment list that
\* html.fragments_fromstring returns for it.
NoText == [none |-> TRUE, s |-> <<>>]
Str(s) == [none |-> FALSE, s |-> s]
EmptyDict == [k \in {} |-> 0]
Element(tag, text, attrs, kids) ==
  [tag |-> tag, text |-> text, attrs |-> attrs, kids |-> kids]
\* a leading text fragment (a str in the fragment list)
TextFragment == Element("#text", Str(<<"caption">>), EmptyDict, <<>>)
HEAD_COLUMN_TAG == "th"
Whitespace == {" ", "\n"}
RECURSIVE lstrip(_)
\* str.lstrip
lstrip(s) ==
  IF s # <<>> /\ Head(s) \in Whitespace THEN lstrip(Tail(s)) ELSE s
RECURSIVE rstrip(_)
\* str.rstrip
rstrip(s) ==
  IF s # <<>> /\ s[Len(s)] \in Whitespace
  THEN rstrip(SubSeq(s, 1, Len(s) - 1)) ELSE s
\* format_tag_text: str(None) for a missing text, strip, drop the line breaks
format_tag_text(text) ==
  LET t == IF text.none THEN <<"None">> ELSE text.s
  IN SelectSeq(rstrip(lstrip(t)), LAMBDA c : c # "\n")
Numerals == {"0", "1", "2", "3"}
\* int(str) on the numerals the markup uses
int(s) == CASE s = "0" -> 0 [] s = "1" -> 1 [] s = "2" -> 2 [] s = "3" -> 3
\* element.get(name)
attr_get(item, name) ==
  IF name \in DOMAIN item.attrs THEN item.attrs[name] ELSE None
\* a span test that never sees a group label
colspan_ignored(colspan) ==
  IF ~Falsy(colspan) /\ colspan \notin Numerals THEN "ValueError" ELSE "no"
\* `colspan and int(colspan) > 1`; int() raises ValueError on a non-number
colspan_gt_1(colspan) ==
  IF Falsy(colspan) THEN "no"
  ELSE IF colspan \notin Numerals THEN "ValueError"
  ELSE IF int(colspan) > 1 THEN "yes" ELSE "no"
\* dict[k] = v
setitem(d, k, v) == [x \in DOMAIN d \cup {k} |-> IF x = k THEN v ELSE d[x]]
\* defaultdict(dict)[name]
default_get(res, name) == IF name \in DOMAIN res THEN res[name] ELSE EmptyDict
\* a duplicate test that never fires
duplicate_never(res, tag_text_key, formatted_key) == FALSE
\* `tag_text_key in res and formatted_key in res[tag_text_key]`
duplicate_text(res, tag_text_key, formatted_key) ==
  tag_text_key \in DOMAIN res /\ formatted_key \in DOMAIN res[tag_text_key]
\* body of the loop over the children of one row
thead_item(acc, item, tag_text_key, attributes) ==
  LET span == colspan_gt_1(attr_get(item, "colspan"))
      formatted_key == format_tag_text(item.text)
      r1 == setitem(acc.res, tag_text_key,
                setitem(default_get(acc.res, tag_text_key), formatted_key, acc.index))
      touched == IF attributes = {} THEN {}
                 ELSE {n \in DOMAIN item.attrs \cap attributes :
                         item.attrs[n] # ""}
      r2 == [n \in DOMAIN r1 \cup touched |->
               IF n \in touched
               THEN setitem(default_get(r1, n), item.attrs[n], acc.index) ELSE r1[n]]
  IN IF acc.exc # "none" THEN acc
     ELSE IF span = "ValueError" THEN [acc EXCEPT !.exc = "ValueError"]
     ELSE IF span = "yes" THEN acc
     ELSE IF item.tag # HEAD_COLUMN_TAG THEN acc
     ELSE IF duplicate_text(acc.res, tag_text_key, formatted_key)
          THEN [acc EXCEPT !.exc = "ValueError"]
     ELSE [acc EXCEPT !.res = r2, !.index = acc.index + 1]
RECURSIVE thead_items(_, _, _, _)
\* `for item in tr_element.iterchildren()`
thead_items(acc, items, tag_text_key, attributes) ==
  IF items = <<>> THEN acc
  ELSE thead_items(thead_item(acc, Head(items), tag_text_key, attributes),
                   Tail(items), tag_text_key, attributes)
RECURSIVE thead_rows(_, _, _, _)
\* `for tr_element in tr_elements`
thead_rows(acc, trs, tag_text_key, attributes) ==
  IF trs = <<>> THEN acc
  ELSE thead_rows(thead_items(acc, Head(trs).kids, tag_text_key, attributes),
                  Tail(trs), tag_text_key, attributes)
RECURSIVE Flat(_)
Flat(ss) == IF ss = <<>> THEN <<>> ELSE Head(ss) \o Flat(Tail(ss))
\* a collection that looks at the top level only
rows_of_top_level_only(element) ==
  IF element.tag = "tr" THEN <<element>> ELSE <<>>
\* the rows one fragment contributes to tr_elements
rows_of(element) ==
  IF element.tag = "#text" THEN <<>>
  ELSE IF element.tag = "div"
       THEN SelectSeq(element.kids, LAMBDA item : item.tag = "tr")
  ELSE IF element.tag = "tr" THEN <<element>>
  ELSE <<>>
\* the loop that fills tr_elements
tr_elements(head_elements) ==
  Flat([i \in 1..Len(head_elements) |-> rows_of(head_elements[i])])
\* parse_table_thead, started from the given index map and counter
thead_from(res, index, head, tag_text_key, attributes) ==
  LET trs == tr_elements(head)
      acc == thead_rows([exc |-> "none", res |-> res, index |-> index],
                        trs, tag_text_key, attributes)
  IN IF trs = <<>> THEN [exc |-> "ValueError"]
     ELSE IF acc.exc # "none" THEN [exc |-> acc.exc]
     ELSE [exc |-> "none", res |-> acc.res]
\* parse_table_thead(head, tag_text_key, attributes)
parse_table_thead(head, tag_text_key, attributes) ==
  thead_from(EmptyDict, 1, head, tag_text_key, attributes)
\* a cell text that is returned as it stands in the markup
cell_text_unstripped(text) ==
  IF text.none \/ text.s = <<>> THEN NoText ELSE Str(text.s)
\* `cell.text.strip() if cell.text else None`
cell_text(text) ==
  IF text.none \/ text.s = <<>> THEN NoText ELSE Str(rstrip(lstrip(text.s)))
\* parse_table_row(row): obj is the root element html.fromstring returns
parse_table_row(obj) ==
  IF obj.tag # "tr" THEN [exc |-> "ValueError"]
  ELSE [exc |-> "none",
        res |-> [i \in 1..Len(obj.kids) |-> cell_text(obj.kids[i].text)]]
\* parse_table_cell(row): cell is the root element html.fromstring returns
parse_table_cell(cell) ==
  IF cell.tag # "td" THEN [exc |-> "ValueError"]
  ELSE [exc |-> "none", res |-> cell_text(cell.text)]

\* ------------------------------------------------------ the table binding
\* A page class with one binding, table = SomeTable() (a subclass of Table),
\* found by the xpath "//table".
TableSlot == "table"
TableLocator == "//table"
head_tag_text_key == "text"
\* the element `.//thead` finds under the table
Thead == <<".//thead", 0, 1>>
\* the Table object as the cache holds it: its proxy (_table), its
\* columns_indexes and its real_column_count
TableOf(h, res) ==
  [kind |-> "table", hs |-> <<h>>, value |-> TableLocator, columns_indexes |-> res,
   real_column_count |->
     Cardinality(DOMAIN default_get(res, head_tag_text_key))]
\* Table._search_table
search_table(w) ==
  LET r == page_find_element(w, TableLocator, "find_element")
  IN IF r.exc # "none" THEN r
     ELSE Ret(NewProxy(r.w, r.val, TableLocator, TableSlot), "none", "",
              One(Len(w.proxies) + 1))
\* Table._parse_header on proxy h; head is the innerHTML the browser answers
parse_header(w, h, head) ==
  UNION {
    IF q.exc # "none" THEN {q}
    ELSE {IF g.exc # "none" THEN g
          ELSE LET p == parse_table_thead(head, head_tag_text_key,
                                          w.head_search_attrs)
               IN IF p.exc # "none"
                  THEN Raise(Log(g.w, "parse_table_thead", <<>>, "error"), p.exc)
                  ELSE Ret(Log(g.w, "parse_table_thead", <<>>, "ok"),
                           "none", "", TableOf(h, p.res))
          : g \in RawOp(q.w, Thead, "get_attribute")}
    : q \in getattribute(w, h, "find_element", FALSE)}
\* Table.__get__ that builds the table on every access
table_get_always_builds(w, head) ==
  LET co == check_opened(w)
  IN IF co.exc # "none" THEN {co}
     ELSE LET r == search_table(w)
          IN IF r.exc # "none" THEN {r}
             ELSE {IF p.exc # "none" THEN p
                   ELSE Ret([p.w EXCEPT !.cached_attrs[TableSlot] = p.val],
                            "none", "", p.val)
                   : p \in parse_header(r.w, r.val.hs[1], head)}
\* Table.__get__
table_get(w, head) ==
  LET co == check_opened(w)
  IN IF co.exc # "none" THEN {co}
     ELSE IF w.cached_attrs[TableSlot].kind = "none"
     THEN LET r == search_table(w)
          IN IF r.exc # "none" THEN {r}
             ELSE {IF p.exc # "none" THEN p
                   ELSE Ret([p.w EXCEPT !.cached_attrs[TableSlot] = p.val],
                            "none", "", p.val)
                   : p \in parse_header(r.w, r.val.hs[1], head)}
     ELSE {Ret(w, "none", "", w.cached_attrs[TableSlot])}

\* an int a lookup returns
IntVal(k) == [kind |-> "int", hs |-> <<>>, n |-> k]
\* dict.get(key): the index stored, or None
dict_get(d, key) == IF key \in DOMAIN d THEN IntVal(d[key]) ELSE NoneVal
\* Column(visible_name) and
\* Column(visible_name, SearchBy.attribute_name, attr_name, attr_value)
ByName(visible_name) ==
  [visible_name |-> visible_name, search_attr_name |-> None,
   search_attr_value |-> None]
ByAttribute(visible_name, attr_name, attr_value) ==
  [visible_name |-> visible_name, search_attr_name |-> attr_name,
   search_attr_value |-> attr_value]
\* the columns the table class declares
Columns ==
  {ByName(<<"#">>), ByName(<<"Flag">>), ByName(<<"Price">>),
   ByAttribute(<<"Name">>, "psortablecolumn", "name"),
   ByAttribute(<<"#">>, "psortablecolumn", "name"),
   ByAttribute(<<"Cost">>, "psortablecolumn", "cost")}
\* Column.__get__ on a table object: the table tracks the column's attribute
\* from now on
column_get(w, column) ==
  IF ~Falsy(column.search_attr_name)
  THEN [w EXCEPT !.head_search_attrs = @ \cup {column.search_attr_name}]
  ELSE w
\* get_column_index that asks the text map first
get_column_index_text_first(w, tab, column) ==
  LET col_index == dict_get(default_get(tab.columns_indexes, head_tag_text_key),
                            column.visible_name)
  IN IF col_index # NoneVal THEN Ret(w, "none", "", col_index)
     ELSE IF ~Falsy(column.search_attr_value)
     THEN Ret(w, "none", "",
              dict_get(default_get(tab.columns_indexes, column.search_attr_name),
                       column.search_attr_value))
     ELSE Raise(w, "BaseTableException")
\* Table.get_column_index on the table object tab
get_column_index(w, tab, column) ==
  IF ~Falsy(column.search_attr_value)
  THEN Ret(w, "none", "",
           dict_get(default_get(tab.columns_indexes, column.search_attr_name),
                    column.search_attr_value))
  ELSE LET col_index ==
             dict_get(default_get(tab.columns_indexes, head_tag_text_key),
                      column.visible_name)
       IN IF col_index = NoneVal THEN Raise(w, "BaseTableException")
          ELSE Ret(w, "none", "", col_index)
\* page.table.<column>: the table through the page, then Column.__get__.
\* When the slot holds a WebElementProxy, the column name is looked up on
\* the raw element, which has no such attribute.
table_column(w, head, column) ==
  {IF t.exc # "none" THEN t
   ELSE IF t.val.kind # "table" THEN Raise(t.w, "AttributeError")
   ELSE Ret(column_get(t.w, column), "none", "", t.val)
   : t \in table_get(w, head)}
\* page.table.<column>.index
column_index(w, head, column) ==
  {IF t.exc # "none" THEN t ELSE get_column_index(t.w, t.val, column)
   : t \in table_column(w, head, column)}

\* page.table: the attribute the test goes on with is looked up on what the
\* slot holds; a WebElementProxy forwards the name to the raw element, which
\* has no such attribute
table_object(w, head) ==
  {IF t.exc # "none" THEN t
   ELSE IF t.val.kind # "table" THEN Raise(t.w, "AttributeError")
   ELSE t
   : t \in table_get(w, head)}

\* ------------------------------------------------------ table lookups
\* helpers/exceptions.py: the classes an `except cls` clause catches
IsA(exc, cls) ==
  \/ exc = cls
  \/ cls = "TableElementNotFound" /\ exc \in {"TableRowNotFound", "TableColumnNotFound"}
  \/ cls = "BaseTableException"
       /\ exc \in {"TableElementNotFound", "TableRowNotFound", "TableColumnNotFound"}
\* a list a lookup returns
ListVal(items) == [kind |-> "list", hs |-> <<>>, items |-> items]
get_body_row_xpath(index) == "//tbody" \o "//tr" \o "[" \o ToString(index) \o "]"
r_xpath_column(index) == "//tr" \o "/td" \o "[" \o ToString(index) \o "]"
\* the elements the browser finds for an xpath in the table whose body rows
\* are body, in document order
XpathMatches(body, xpath) ==
  IF \E i \in 1..Len(body) : xpath = TableLocator \o get_body_row_xpath(i)
  THEN <<body[CHOOSE i \in 1..Len(body) : xpath = TableLocator \o get_body_row_xpath(i)]>>
  ELSE LET ks == {k \in 1..(MaxCells + 2) : xpath = TableLocator \o r_xpath_column(k)}
       IN IF ks = {} THEN <<>>
          ELSE LET k == CHOOSE k \in ks : TRUE
                   has(row) == Len(row.kids) >= k
                   rows == SelectSeq(body, has)
               IN [i \in 1..Len(rows) |-> rows[i].kids[k]]
\* the document while the table shows body: what xpath matches in it
Showing(w, body, xpath) ==
  [w EXCEPT !.dom = [L \in DOMAIN w.dom \cup {xpath} |->
                       IF L \in DOMAIN w.dom THEN w.dom[L]
                       ELSE Len(XpathMatches(body, xpath))]]
\* the answers of the raw element to the lookups made since world w that agree
\* with what the document shows
Truthful(w, q, present) ==
  \A i \in (Len(w.calls) + 1)..Len(q.w.calls) :
    LET e == q.w.calls[i]
    IN (e.c = "find_element" /\ Len(e.t) = 3) =>
         /\ e.r = "ok" => present
         /\ e.r = "notfound" => ~present
\* Table.get_item_by_xpath with Table._wrap_proxy: a proxy with no attr_name
get_item_by_xpath(w, tab, body, xpath) ==
  LET xp == tab.value \o xpath
      w0 == Showing(w, body, xp)
  IN {CASE q.exc = "NoSuchElementException" -> Raise(q.w, "TableElementNotFound")
        [] q.exc # "none" -> q
        [] OTHER -> Ret(NewProxy(q.w, <<xp, 0, 1>>, xp, NoName), "none", "",
                        One(Len(q.w.proxies) + 1))
      : q \in {q \in getattribute(w0, tab.hs[1], "find_element", FALSE) :
                 Truthful(w0, q, Len(XpathMatches(body, xp)) >= 1)}}
\* Table.get_items_by_xpath: find_elements answers with every match, maybe
\* none
get_items_by_xpath(w, tab, body, xpath) ==
  LET xp == tab.value \o xpath
      w0 == Showing(w, body, xp)
      n == Len(XpathMatches(body, xp))
      base(q) == Len(q.w.proxies)
  IN {CASE q.exc = "NoSuchElementException" -> Raise(q.w, "TableElementNotFound")
        [] q.exc # "none" -> q
        [] OTHER ->
             Ret([q.w EXCEPT !.proxies = @ \o
                    [i \in 1..n |-> [obj |-> <<xp, 0, i>>, locator |-> xp,
                                     attr_name |-> NoName]]],
                 "none", "", ManyOf([i \in 1..n |-> base(q) + i]))
      : q \in getattribute(w0, tab.hs[1], "find_elements", FALSE)}
\* proxy.get_attribute("outerHTML"): the markup of the element read
outerHTML(w, h, body) ==
  {IF g.exc # "none" THEN g
   ELSE [g EXCEPT !.val =
           XpathMatches(body, w.proxies[h].locator)[w.proxies[h].obj[3]]]
   : g \in getattribute(w, h, "get_attribute", FALSE)}
\* Table._get_row_values_by_index(index)
get_row_values_by_index(w, tab, body, index) ==
  UNION {
    CASE IsA(g.exc, "TableElementNotFound") -> {Raise(g.w, "TableRowNotFound")}
      [] g.exc # "none" -> {g}
      [] OTHER ->
           {CASE IsA(row_html.exc, "TableElementNotFound") ->
                   Raise(row_html.w, "TableRowNotFound")
              [] row_html.exc # "none" -> row_html
              [] OTHER ->
                   LET p == parse_table_row(row_html.val)
                   IN IF p.exc # "none" THEN Raise(row_html.w, p.exc)
                      ELSE Ret(row_html.w, "none", "", ListVal(p.res))
            : row_html \in outerHTML(g.w, g.val.hs[1], body)}
    : g \in get_item_by_xpath(w, tab, body, get_body_row_xpath(index))}
\* [parse_table_cell(c.get_attribute("outerHTML")) for c in cells], from the
\* i-th cell on
RECURSIVE column_cells(_, _, _, _, _)
column_cells(w, cells, i, body, res) ==
  IF i > Len(cells) THEN {Ret(w, "none", "", ListVal(res))}
  ELSE UNION {
         IF c.exc # "none" THEN {c}
         ELSE LET p == parse_table_cell(c.val)
              IN IF p.exc # "none" THEN {Raise(c.w, p.exc)}
                 ELSE column_cells(c.w, cells, i + 1, body, Append(res, p.res))
         : c \in outerHTML(w, cells[i], body)}
\* Table.get_column_values_by_index(index): `None > int` is a TypeError
get_column_values_by_index(w, tab, body, index) ==
  IF index.kind # "int" THEN {Raise(w, "TypeError")}
  ELSE IF index.n > tab.real_column_count THEN {Raise(w, "TableColumnNotFound")}
  ELSE UNION {
         CASE IsA(q.exc, "TableElementNotFound") -> column_cells(q.w, <<>>, 1, body, <<>>)
           [] q.exc # "none" -> {q}
           [] OTHER -> column_cells(q.w, q.val.hs, 1, body, <<>>)
         : q \in get_items_by_xpath(w, tab, body, r_xpath_column(index.n))}
\* Table._get_column_values(column)
get_column_values(w, tab, body, column) ==
  LET col_index == get_column_index(w, tab, column)
  IN IF col_index.exc # "none" THEN {col_index}
     ELSE get_column_values_by_index(col_index.w, tab, body, col_index.val)
\* Column.values()
values(w, tab, body, column) == get_column_values(w, tab, body, column)
\* list.index(value): the first position, from 0, or a ValueError
list_index(w, items, v) ==
  LET at == {i \in 1..Len(items) : items[i] = v}
  IN IF at = {} THEN Raise(w, "ValueError")
     ELSE Ret(w, "none", "", IntVal((CHOOSE i \in at : \A j \in at : i <= j) - 1))
\* Column.get_index_by_value(value): `except TypeError`
get_index_by_value(w, tab, body, column, v) ==
  {IF r.exc # "none"
   THEN (IF r.exc = "TypeError" THEN Raise(r.w, "TableElementNotFound") ELSE r)
   ELSE LET i == list_index(r.w, r.val.items, v)
        IN IF i.exc = "TypeError" THEN Raise(i.w, "TableElementNotFound")
           ELSE IF i.exc # "none" THEN i
           ELSE Ret(i.w, "none", "", IntVal(i.val.n + 1))
   : r \in values(w, tab, body, column)}
\* the proxies a lookup made for its own use are gone when it ends, and the
\* document is the page's again
Finished(w, r) ==
  LET own == {i \in 1..Len(r.w.proxies) : r.w.proxies[i].locator \in DOMAIN w.dom}
      keep == IF r.exc = "none" /\ r.val.kind = "one" THEN r.val.hs[1]
              ELSE Cardinality(own)
  IN [r EXCEPT !.w.proxies = SubSeq(@, 1, keep),
               !.w.dom = [L \in DOMAIN w.dom |-> @[L]]]
\* page.table.<lookup>(...), the table showing header a.head and body a.body
table_lookup(w, op, a) ==
  UNION {
    IF t.exc # "none" THEN {t}
    ELSE {Finished(w, r) : r \in
           CASE op = "table.get_row_values_by_index" ->
                  get_row_values_by_index(t.w, t.val, a.body, a.index)
             [] op = "table.get_column_values_by_index" ->
                  get_column_values_by_index(t.w, t.val, a.body, IntVal(a.index))
             [] OTHER -> get_item_by_xpath(t.w, t.val, a.body, a.xpath)}
    : t \in table_object(w, a.head)}
\* page.table.<column>.<lookup>(...)
column_lookup(w, op, a) ==
  UNION {
    IF t.exc # "none" THEN {t}
    ELSE {Finished(w, r) : r \in
           CASE op = "column.values" -> values(t.w, t.val, a.body, a.column)
             [] OTHER -> get_index_by_value(t.w, t.val, a.body, a.column, a.value)}
    : t \in table_column(w, a.head, a.column)}

\* ----------------------------------------------- constructing a binding
\* By.XPATH
XPATH == "xpath"
\* _validate_params that only asks for a strategy
validate_params_strategy_only(search_by, val) ==
  IF Falsy(search_by) THEN "BasePageException" ELSE "none"
\* ElementDescriptor._validate_params
validate_params(search_by, val) ==
  IF Falsy(search_by) \/ Falsy(val) THEN "BasePageException" ELSE "none"
\* ElementDescriptor.__init__: the binding made, or the error raised
ElementDescriptor(search_by, val, is_many) ==
  LET sb == IF ~Falsy(val) /\ Falsy(search_by) THEN XPATH ELSE search_by
      exc == validate_params(sb, val)
  IN IF exc # "none" THEN [exc |-> exc]
     ELSE [exc |-> "none", search_by |-> sb, value |-> val, many |-> is_many]

\* ----------------------------------------------- ListOfElementDescriptor
DATA_E2E_ATTRIBUTE_NAME == "data-e2e"
\* page.__dict__ of a page no binding was set on
NoBindings == [n \in {} |-> NoneVal]
RECURSIVE strip_underscores(_)
\* str.strip('_'), on a string given piece by piece
strip_underscores(s) ==
  IF s # <<>> /\ Head(s) = "_" THEN strip_underscores(Tail(s))
  ELSE IF s # <<>> /\ s[Len(s)] = "_"
  THEN strip_underscores(SubSeq(s, 1, Len(s) - 1))
  ELSE s
RECURSIVE join(_, _)
\* sep.join(strings)
join(sep, strings) ==
  IF strings = <<>> THEN ""
  ELSE IF Len(strings) = 1 THEN strings[1]
  ELSE strings[1] \o sep \o join(sep, Tail(strings))
\* ListOfElementDescriptor.__init__(base_name_parts, end_name_part, many):
\* the fragments lose the underscores around them
ListOfElementDescriptor(base_name_parts, end_name_part, is_many) ==
  [base_name_parts |->
     [i \in 1..Len(base_name_parts) |-> join("", strip_underscores(base_name_parts[i]))],
   end_name_part |->
     IF end_name_part.none \/ end_name_part.s = <<>> THEN None
     ELSE join("", strip_underscores(end_name_part.s)),
   many |-> is_many,
   tag_attr_name |-> DATA_E2E_ATTRIBUTE_NAME]
\* the name _make_attr_name puts together: zip(base_name_parts, params) ends
\* with the shorter of the two
indexed_name(acc, args) ==
  LET params == [i \in 1..Len(args) |-> ToString(args[i])]
      n == IF Len(params) < Len(acc.base_name_parts) THEN Len(params)
           ELSE Len(acc.base_name_parts)
      indexed_names ==
        [k \in 1..n |->
           IF acc.base_name_parts[k] # ""
           THEN acc.base_name_parts[k] \o "_" \o params[k] ELSE params[k]]
  IN join("_", IF ~Falsy(acc.end_name_part)
               THEN Append(indexed_names, acc.end_name_part) ELSE indexed_names)
\* _make_attr_name that does not compare the two lengths
make_attr_name_unchecked(acc, args) ==
  [exc |-> "none", name |-> indexed_name(acc, args)]
\* ListOfElementDescriptor._make_attr_name
make_attr_name(acc, args) ==
  IF Len(args) # Len(acc.base_name_parts) THEN [exc |-> "BasePageException"]
  ELSE [exc |-> "none", name |-> indexed_name(acc, args)]
\* ListOfElementDescriptor._print_search_value
print_search_value(acc, attr_name) ==
  "//*[@" \o acc.tag_attr_name \o "=\"" \o attr_name \o "\"]"
\* ListOfElementDescriptor._construct_attribute_descriptor
construct_attribute_descriptor(acc, attr_name) ==
  LET descriptor == ElementDescriptor("xpath", print_search_value(acc, attr_name),
                                      acc.many)
  IN [search_by |-> descriptor.search_by, value |-> descriptor.value,
      many |-> descriptor.many, element_name |-> attr_name]
\* setattr(page, attr_name, descriptor)
setattr(w, attr_name, descriptor) ==
  Log([w EXCEPT !.page_dict =
         [n \in DOMAIN @ \cup {attr_name} |->
            IF n = attr_name THEN descriptor ELSE @[n]]],
      "ElementDescriptor", <<attr_name>>, "ok")
\* _get_attribute_descriptor that constructs the binding on every call
get_attribute_descriptor_always_constructs(w, acc, attr_name) ==
  setattr(w, attr_name, construct_attribute_descriptor(acc, attr_name))
\* ListOfElementDescriptor._get_attribute_descriptor: the world in which
\* page.__dict__ holds the binding
get_attribute_descriptor(w, acc, attr_name) ==
  IF attr_name \notin DOMAIN w.page_dict
  THEN setattr(w, attr_name, construct_attribute_descriptor(acc, attr_name))
  ELSE w
\* the document as a query for locator L sees it: a locator the application
\* renders nothing for matches nothing
Document(w, L) ==
  IF L \in DOMAIN w.dom THEN w
  ELSE [w EXCEPT !.dom = [x \in DOMAIN @ \cup {L} |-> IF x = L THEN 0 ELSE @[x]]]
\* cached_attrs[name] = val
cache_set(w, name, val) ==
  [w EXCEPT !.cached_attrs =
     [n \in DOMAIN @ \cup {name} |-> IF n = name THEN val ELSE @[n]]]
\* cached_attrs.get(name)
cache_get(w, name) ==
  IF name \in DOMAIN w.cached_attrs THEN w.cached_attrs[name] ELSE NoneVal
\* ElementDescriptor._search_element of the binding descriptor
descriptor_search_element(w, descriptor) ==
  LET w0 == Document(w, descriptor.value)
      name == descriptor.element_name
  IN IF descriptor.many
     THEN LET r == page_find_elements(w0, descriptor.value, "find_elements")
              n == Len(r.val)
              base == Len(w.proxies)
          IN IF r.exc # "none" THEN r
             ELSE Ret([r.w EXCEPT !.proxies = @ \o
                          [i \in 1..n |-> [obj |-> r.val[i], locator |-> descriptor.value,
                                           attr_name |-> name]]],
                      "none", "", ManyOf([i \in 1..n |-> base + i]))
     ELSE LET r == page_find_element(w0, descriptor.value, "find_element")
          IN IF r.exc # "none" THEN r
             ELSE Ret(NewProxy(r.w, r.val, descriptor.value, name), "none", "",
                      One(Len(w.proxies) + 1))
\* ElementDescriptor.__get__(page) of the binding descriptor
descriptor_get_on(w, descriptor) ==
  LET co == check_opened(w)
      name == descriptor.element_name
  IN IF co.exc # "none" THEN co
     ELSE IF cache_get(w, name).kind = "none"
     THEN LET r == descriptor_search_element(w, descriptor)
          IN IF r.exc # "none" THEN r
             ELSE Ret(cache_set(r.w, name, r.val), "none", "", r.val)
     ELSE Ret(w, "none", "", cache_get(w, name))
\* ListOfElementDescriptor.get(*numbers) of the accessor acc of the page
grouped_get(w, acc, numbers) ==
  LET attr_name == make_attr_name(acc, numbers)
  IN IF attr_name.exc # "none" THEN Raise(w, attr_name.exc)
     ELSE LET w1 == get_attribute_descriptor(w, acc, attr_name.name)
          IN descriptor_get_on(w1, w1.page_dict[attr_name.name])

\* ------------------------------------------------------- the operations
State == [dom |-> dom, tabs |-> tabs, focus |-> focus, url |-> opened_url, proxies |-> proxies,
          cached_attrs |-> cached_attrs, loaders |-> loaders,
          head_search_attrs |-> head_search_attrs, page_dict |-> page_dict]
\* the world an operation starts in, in state st
World(st) == [dom |-> st.dom, tabs |-> st.tabs, focus |-> st.focus, url |-> st.url,
              proxies |-> st.proxies, cached_attrs |-> st.cached_attrs,
              loaders |-> st.loaders,
              head_search_attrs |-> st.head_search_attrs, page_dict |-> st.page_dict,
              calls |-> <<>>, nav |-> FALSE, bound |-> <<>>]

\* one operation of the test code, run to its end
Run(st, op, a, h, f) ==
  LET w == World(st)
  IN CASE op = "get" -> {descriptor_get(w, a)}
       [] op = "page.find_element" -> {find_element(w, a)}
       [] op = "reload_element" -> {reload_element(w, a)}
       [] op = "get_table" -> table_get(w, a)
       [] op = "column.index" -> column_index(w, a.head, a.column)
       [] op = "grouped.get" -> {grouped_get(w, a.acc, a.numbers)}
       [] op \in {"table.get_row_values_by_index", "table.get_column_values_by_index",
                  "table.get_item_by_xpath"} -> table_lookup(w, op, a)
       [] op \in {"column.values", "column.get_index_by_value"} ->
            column_lookup(w, op, a)
       [] op = "open" -> open(w, a)
       [] op = "open_redirect_url" -> {open_redirect_url(w, a)}
       [] op = "focus_on_last_opened_tab" -> focus_on_last_opened_tab(w)
       [] op = "focus_on_first_opened_tab" -> focus_on_first_opened_tab(w)
       [] OTHER -> getattribute(w, h, op, f)

Handles == 1..Len(proxies)

\* Python objects have identity but no order: two heaps that differ only in
\* the order the handles were created in are one state.  A state keeps its
\* handles ordered by Rank, the cache following the renumbering.
Rank(ps, ca, i) ==
  LET p == ps[i]
      kind == CASE p.attr_name = "element" -> 2
                [] p.attr_name = "elements" -> 3
                [] p.attr_name = TableSlot -> 4
                [] OTHER -> IF p.locator = "a" THEN 0 ELSE 1
      held == IF p.attr_name = NoName THEN <<>> ELSE ca[p.attr_name].hs
      pos == IF \E k \in 1..Len(held) : held[k] = i
             THEN CHOOSE k \in 1..Len(held) : held[k] = i ELSE 0
  IN ((kind * 2 + p.obj[2]) * (MaxMatch + 1) + p.obj[3]) * (MaxHandles + 1) + pos
Order(ps, ca) ==
  LET n == Len(ps)
      rk == [i \in 1..n |-> Rank(ps, ca, i)]
  IN [i \in 1..n |->
       1 + Cardinality({j \in 1..n : rk[j] < rk[i] \/ (rk[j] = rk[i] /\ j < i)})]
\* the state an operation leaves behind
StateOf(w) == [dom |-> w.dom, tabs |-> w.tabs, focus |-> w.focus, url |-> w.url,
               proxies |-> w.proxies, cached_attrs |-> w.cached_attrs,
               loaders |-> w.loaders,
               head_search_attrs |-> w.head_search_attrs, page_dict |-> w.page_dict]
Commit(st) ==
  LET n == Len(st.proxies)
      g == Order(st.proxies, st.cached_attrs)
  IN /\ dom' = st.dom
     /\ tabs' = st.tabs
     /\ focus' = st.focus
     /\ opened_url' = st.url
     /\ proxies' = [k \in 1..n |-> st.proxies[CHOOSE i \in 1..n : g[i] = k]]
     /\ cached_attrs' = [s \in DOMAIN st.cached_attrs |->
           [st.cached_attrs[s] EXCEPT !.hs = [k \in 1..Len(@) |-> g[@[k]]]]]
     /\ loaders' = st.loaders
     /\ head_search_attrs' = st.head_search_attrs
     /\ page_dict' = st.page_dict
     /\ UNCHANGED <<invoked, outcome>>

\* the test runs one operation; a run creates at most MaxHandles proxies
Do(op, a, h, f) ==
  \E st \in {StateOf(r.w) : r \in Run(State, op, a, h, f)} :
    Len(st.proxies) <= MaxHandles /\ Commit(st)

\* the page object once constructed, with the loader classes in use
InitPage(used) ==
  /\ dom \in {d \in [Locators -> 0..MaxMatch] : \A L \in Locators : d[L] \in Matches(L)}
  /\ tabs = 1
  /\ focus = 1
  /\ opened_url \in Urls
  /\ proxies = <<>>
  /\ cached_attrs = [s \in Slots |-> NoneVal]
  /\ loaders = used
  /\ head_search_attrs = {}
  /\ page_dict = NoBindings
  /\ invoked = Nothing
  /\ outcome = Nothing
\* a page whose application configures both loader classes
Init == InitPage(LoaderClasses)
\* a page whose loader classes may be empty strings
InitLoaders == \E used \in SUBSET LoaderClasses : InitPage(used)

\* what the test can hand to reload_element in state st: a handle it holds,
\* or the list a many binding returned
Reloadable(st) ==
  {One(h) : h \in 1..Len(st.proxies)}
  \cup {st.cached_attrs[s] : s \in {s \in DOMAIN st.cached_attrs :
                                       st.cached_attrs[s].kind = "many"}}
\* page.<slot>
Get(s) == Do("get", s, 0, FALSE)
\* page.find_element(by, value)
FindElement(L) == Do("page.find_element", L, 0, FALSE)
\* page.reload_element(el)
ReloadElement(el) == Do("reload_element", el, 0, FALSE)
\* page.open(custom_url)
Open(u) == Do("open", u, 0, FALSE)
\* page.open_redirect_url(url)
OpenRedirectUrl(u) == Do("open_redirect_url", u, 0, FALSE)
\* page.focus_on_last_opened_tab()
FocusOnLastOpenedTab == Do("focus_on_last_opened_tab", "", 0, FALSE)
\* page.focus_on_first_opened_tab()
FocusOnFirstOpenedTab == Do("focus_on_first_opened_tab", "", 0, FALSE)
\* handle.find_element(...): a method forwarded to the raw element
Forwarded(h) == Do("find_element", "", h, FALSE)
\* handle.click(focus_on_opened_tab)
Click(h, f) == Do("click", "", h, f)
\* handle.click_and_wait(focus_on_opened_tab)
ClickAndWait(h, f) == Do("click_and_wait", "", h, f)
\* handle.text, handle.value
ReadProperty(h, name) == Do(name, "", h, FALSE)

\* the application re-renders the elements a locator matches
Rerender(L, n) ==
  /\ n \in Matches(L)
  /\ Commit([State EXCEPT
               !.dom[L] = n,
               !.proxies = [i \in 1..Len(proxies) |-> [proxies[i] EXCEPT !.obj = Older(@, {L})]]])

Next ==
  \/ \E s \in Slots : Get(s)
  \/ \E L \in Locators : FindElement(L)
  \/ \E el \in Reloadable(State) : ReloadElement(el)
  \/ \E u \in Urls \cup {"None"} : Open(u)
  \/ \E u \in Urls : OpenRedirectUrl(u)
  \/ FocusOnLastOpenedTab
  \/ FocusOnFirstOpenedTab
  \/ \E h \in Handles : Forwarded(h)
  \/ \E h \in Handles, f \in BOOLEAN : Click(h, f)
  \/ \E h \in Handles, f \in BOOLEAN : ClickAndWait(h, f)
  \/ \E h \in Handles, name \in Properties : ReadProperty(h, name)
  \/ \E L \in Locators, n \in 0..MaxMatch : Rerender(L, n)

Spec == Init /\ [][Next]_vars
SpecLoaders == InitLoaders /\ [][Next]_vars

\* ------------------------------------- the bindings a page class declares
\* arguments a page class passes to ElementDescriptor(...)
Strategies == {None, "", "xpath", "id", "css selector", "class name"}
Values == {None, "", "a", "c", "//div"}
\* the state of the page session while a function is called on its own
NoPage ==
  /\ dom = [L \in Locators |-> 0]
  /\ tabs = 1
  /\ focus = 1
  /\ opened_url = PageUrl
  /\ proxies = <<>>
  /\ cached_attrs = [s \in Slots |-> NoneVal]
  /\ loaders = LoaderClasses
  /\ head_search_attrs = {}
  /\ page_dict = NoBindings
InitDescriptor ==
  /\ NoPage
  /\ invoked \in [search_by : Strategies, value : Values, many : BOOLEAN]
  /\ outcome = Nothing
\* ElementDescriptor(search_by, value, many) in a class body
Construct ==
  /\ outcome = Nothing
  /\ outcome' = ElementDescriptor(invoked.search_by, invoked.value, invoked.many)
  /\ UNCHANGED <<pagevars, invoked>>
SpecDescriptor == InitDescriptor /\ [][Construct]_vars

\* ------------------------------------------ the page of a group of elements
\* the page class declares one group of elements, one of
\*   rows  = ListOfElementDescriptor(base_name_parts=['row_'])
\*   cells = ListOfElementDescriptor(base_name_parts=['row', '_col_'],
\*                                   end_name_part='_foo')
\*   items = ListOfElementDescriptor(base_name_parts=['_'], many=True)
Accessors ==
  {ListOfElementDescriptor(<<(<<"row", "_">>)>>, NoText, FALSE),
   ListOfElementDescriptor(<<(<<"row">>), (<<"_", "col", "_">>)>>,
                           Str(<<"_", "foo">>), FALSE),
   ListOfElementDescriptor(<<(<<"_">>)>>, NoText, TRUE)}
\* the arguments the tests pass to get
Numbers == {<<>>, <<1>>, <<2>>, <<1, 2>>, <<2, 1>>, <<1, 2, 1>>}
\* the names of the elements of the group the application renders
NamesOf(acc) ==
  {make_attr_name(acc, n).name :
     n \in {n \in Numbers : Len(n) = Len(acc.base_name_parts)}}
InitGrouped ==
  /\ invoked \in Accessors
  /\ dom \in [{print_search_value(invoked, n) : n \in NamesOf(invoked)} -> 0..MaxMatch]
  /\ tabs = 1
  /\ focus = 1
  /\ opened_url \in Urls
  /\ proxies = <<>>
  /\ cached_attrs = [s \in NamesOf(invoked) |-> NoneVal]
  /\ loaders = LoaderClasses
  /\ head_search_attrs = {}
  /\ page_dict = NoBindings
  /\ outcome = Nothing
\* page.<group>.get(*numbers)
GroupedGet(numbers) ==
  Do("grouped.get", [acc |-> invoked, numbers |-> numbers], 0, FALSE)
NextGrouped ==
  \/ \E numbers \in Numbers : GroupedGet(numbers)
  \/ \E u \in Urls \cup {"None"} : Open(u)
  \/ \E u \in Urls : OpenRedirectUrl(u)
  \/ \E h \in Handles : Forwarded(h)
  \/ \E h \in Handles, name \in Properties : ReadProperty(h, name)
  \/ \E L \in DOMAIN dom, n \in 0..MaxMatch : Rerender(L, n)
SpecGrouped == InitGrouped /\ [][NextGrouped]_vars

\* ------------------------------------------- the headers handed to the parser
\* header cells the pages under test show
Th(text, attrs) == Element("th", text, attrs, <<>>)
HeaderCells ==
  { Th(Str(<<" ", "#", "\n">>), [n \in {"psortablecolumn"} |-> "id"]),
    Th(Str(<<"Name">>),
       [n \in {"psortablecolumn", "ng-reflect-field"} |-> "name"]),
    Th(Str(<<"\n", "Name", " ">>), [n \in {"class"} |-> "wide"]),
    Th(Str(<<"Flag">>),
       [n \in {"colspan", "psortablecolumn", "ng-reflect-field"} |->
          CASE n = "colspan" -> "1" [] n = "psortablecolumn" -> "id"
            [] OTHER -> ""]),
    Th(Str(<<"Name">>),
       [n \in {"colspan", "psortablecolumn"} |->
          IF n = "colspan" THEN "2" ELSE "name"]),
    Element("td", Str(<<"#">>), [n \in {"psortablecolumn"} |-> "cell"], <<>>),
    Th(NoText, EmptyDict) }
Layouts == {"tr", "div", "div/div"}
Tr(cells) == Element("tr", NoText, EmptyDict, cells)
Div(kids) == Element("div", NoText, EmptyDict, kids)
\* one header row in its layout: at the top level, inside a grouping
\* container, or two containers deep
Laid(layout, cells) ==
  CASE layout = "tr" -> Tr(cells)
    [] layout = "div" -> Div(<<Tr(cells)>>)
    [] layout = "div/div" -> Div(<<Div(<<Tr(cells)>>)>>)
RECURSIVE Sum(_)
Sum(ns) == IF ns = <<>> THEN 0 ELSE Head(ns) + Sum(Tail(ns))
\* how many cells each row has: at most MaxRows rows, none empty, at most
\* MaxCells cells in all
Shapes ==
  UNION {{sh \in [1..n -> 1..MaxCells] : Sum(sh) <= MaxCells} :
         n \in 0..MaxRows}
\* the markup of the rows of that shape, filled with the cells in order
Markup(lead, sh, layouts, cells) ==
  (IF lead THEN <<TextFragment>> ELSE <<>>)
    \o [i \in 1..Len(sh) |->
          Laid(layouts[i],
               SubSeq(cells, Sum(SubSeq(sh, 1, i - 1)) + 1,
                             Sum(SubSeq(sh, 1, i))))]
Heads ==
  UNION {{Markup(lead, sh, layouts, cells) :
            lead \in BOOLEAN,
            layouts \in [1..Len(sh) -> Layouts],
            cells \in [1..Sum(sh) -> HeaderCells]} :
         sh \in Shapes}
TrackedSets == {{}, {"psortablecolumn", "ng-reflect-field"}}
\* a column declared by an attribute that is named like the key of the text
\* map, Column(..., SearchBy.attribute_name, attr_name="text", ...), and a
\* header whose cell carries that attribute; its value is written as a text
\* is, since it becomes a key of the map the texts are keys of
TextNamedAttribute ==
  [head : {<<Tr(<<Th(Str(<<"Name">>), [n \in {"text"} |-> v])>>)>> :
             v \in {<<"name">>, <<"Name">>}},
   tag_text_key : {"text"}, attributes : {{"text"}}]
InitThead ==
  /\ NoPage
  /\ invoked \in [head : Heads, tag_text_key : {"text"},
                   attributes : TrackedSets] \cup TextNamedAttribute
  /\ outcome = Nothing
\* a parser that keeps its index map from one call to the next
ParseKeepsIndexMap ==
  /\ outcome' = IF outcome = Nothing \/ outcome.exc # "none"
                THEN parse_table_thead(invoked.head, invoked.tag_text_key,
                                       invoked.attributes)
                ELSE thead_from(outcome.res, 1, invoked.head,
                                invoked.tag_text_key, invoked.attributes)
  /\ UNCHANGED <<pagevars, invoked>>
\* parse_table_thead(head, tag_text_key, attributes), called any number of times
ParseTableThead ==
  /\ outcome' = parse_table_thead(invoked.head, invoked.tag_text_key,
                                  invoked.attributes)
  /\ UNCHANGED <<pagevars, invoked>>
SpecThead == InitThead /\ [][ParseTableThead]_vars

\* --------------------------------------------- the rows handed to the parser
Td(text) == Element("td", text, EmptyDict, <<>>)
\* body cells the pages under test show
DataCells ==
  {Td(Str(<<" ", "2">>)),
   Td(Str(<<" ", "test", " ", "Campaign">>)),
   Td(Str(<<"\n", "a", "\n", "b", " ">>)),
   Td(Str(<<" ", "\n">>)),
   Td(NoText)}
\* the markup of one element with at most MaxCells cells under its root
RowMarkups ==
  {Element(tag, NoText, EmptyDict, cells) :
     tag \in {"tr", "td", "div"},
     cells \in UNION {[1..n -> DataCells] : n \in 0..MaxCells}}
InitRow ==
  /\ NoPage
  /\ invoked \in [row : RowMarkups]
  /\ outcome = Nothing
\* parse_table_row(row)
ParseTableRow ==
  /\ outcome' = parse_table_row(invoked.row)
  /\ UNCHANGED <<pagevars, invoked>>
SpecRow == InitRow /\ [][ParseTableRow]_vars

\* ----------------------------------------------------- the page of a table
\* the headers the application shows in the table, at one time or another
TableHeads ==
  LET num == Th(Str(<<" ", "#", "\n">>), [n \in {"psortablecolumn"} |-> "id"])
      name == Th(Str(<<"Name">>),
                 [n \in {"psortablecolumn", "ng-reflect-field"} |-> "name"])
      flag == Th(Str(<<"Flag">>), [n \in {"class"} |-> "wide"])
      group == Th(Str(<<"Name">>),
                  [n \in {"colspan", "psortablecolumn"} |->
                     IF n = "colspan" THEN "2" ELSE "name"])
  IN {<<Tr(<<num, name, flag>>)>>,
      <<Tr(<<name, num>>)>>,
      <<Div(<<Tr(<<group>>), Tr(<<flag>>)>>)>>,
      <<TextFragment>>}
\* the page class declares the table next to a single element:
\*   element = ElementDescriptor(value='a');  table = SomeTable()
TableSlots == {"element", TableSlot}
TableLocators == {"a", TableLocator}
InitTable ==
  /\ dom \in {d \in [TableLocators -> 0..MaxMatch] :
                \A L \in TableLocators : d[L] \in Matches(L)}
  /\ tabs = 1
  /\ focus = 1
  /\ opened_url \in Urls
  /\ proxies = <<>>
  /\ cached_attrs = [s \in TableSlots |-> NoneVal]
  /\ loaders = LoaderClasses
  /\ head_search_attrs = {}
  /\ page_dict = NoBindings
  /\ invoked = Nothing
  /\ outcome = Nothing
\* page.table, while the table shows the header head
GetTable(head) == Do("get_table", head, 0, FALSE)
\* page.table.<column>.index, while the table shows the header head
ColumnIndex(head, column) ==
  Do("column.index", [head |-> head, column |-> column], 0, FALSE)
NextTable ==
  \/ \E head \in TableHeads : GetTable(head)
  \/ \E head \in TableHeads, column \in Columns : ColumnIndex(head, column)
  \/ Get("element")
  \/ \E u \in Urls \cup {"None"} : Open(u)
  \/ \E u \in Urls : OpenRedirectUrl(u)
  \/ FocusOnLastOpenedTab
  \/ FocusOnFirstOpenedTab
  \/ \E h \in Handles : Forwarded(h)
  \/ \E h \in Handles, f \in BOOLEAN : Click(h, f)
  \/ \E L \in TableLocators, n \in 0..MaxMatch : Rerender(L, n)
SpecTable == InitTable /\ [][NextTable]_vars

\* ------------------------------------------------- the rows of the table
\* the body rows the application shows, at one time or another
BodyRows ==
  {Tr(<<Td(Str(<<"Ann">>)), Td(Str(<<" ", "1">>))>>),
   Tr(<<Td(Str(<<"Bob">>)), Td(NoText)>>),
   Tr(<<Td(Str(<<"Ann">>))>>)}
TableBodies == UNION {[1..n -> BodyRows] : n \in 0..MaxRows}
\* the cell values the tests look for
SearchedValues == {Str(<<"Ann">>), Str(<<"Bob">>), Str(<<"1">>), Str(<<"Zed">>)}
\* page.table.get_row_values_by_index(index)
GetRowValuesByIndex(head, body, index) ==
  Do("table.get_row_values_by_index",
     [head |-> head, body |-> body, index |-> index], 0, FALSE)
\* page.table.get_column_values_by_index(index)
GetColumnValuesByIndex(head, body, index) ==
  Do("table.get_column_values_by_index",
     [head |-> head, body |-> body, index |-> index], 0, FALSE)
\* page.table.get_item_by_xpath(xpath)
GetItemByXpath(head, body, xpath) ==
  Do("table.get_item_by_xpath",
     [head |-> head, body |-> body, xpath |-> xpath], 0, FALSE)
\* page.table.<column>.values()
ColumnValues(head, body, column) ==
  Do("column.values", [head |-> head, body |-> body, column |-> column], 0, FALSE)
\* page.table.<column>.get_index_by_value(value)
GetIndexByValue(head, body, column, v) ==
  Do("column.get_index_by_value",
     [head |-> head, body |-> body, column |-> column, value |-> v], 0, FALSE)
\* the xpaths the tests hand to get_item_by_xpath
ItemXpaths == {get_body_row_xpath(i) : i \in 1..(MaxRows + 1)} \cup {"//tfoot"}
NextLookups ==
  \/ \E head \in TableHeads : GetTable(head)
  \/ \E head \in TableHeads, body \in TableBodies, index \in 1..(MaxRows + 1) :
       GetRowValuesByIndex(head, body, index)
  \/ \E head \in TableHeads, body \in TableBodies, index \in 1..(MaxCells + 2) :
       GetColumnValuesByIndex(head, body, index)
  \/ \E head \in TableHeads, body \in TableBodies, xpath \in ItemXpaths :
       GetItemByXpath(head, body, xpath)
  \/ \E head \in TableHeads, body \in TableBodies, column \in Columns :
       ColumnValues(head, body, column)
  \/ \E head \in TableHeads, body \in TableBodies, column \in Columns,
        v \in SearchedValues :
       GetIndexByValue(head, body, column, v)
  \/ Get("element")
  \/ \E u \in Urls \cup {"None"} : Open(u)
  \/ \E u \in Urls : OpenRedirectUrl(u)
  \/ \E h \in Handles : Forwarded(h)
  \/ \E h \in Handles, f \in BOOLEAN : Click(h, f)
  \/ \E L \in TableLocators, n \in 0..MaxMatch : Rerender(L, n)
SpecLookups == InitTable /\ [][NextLookups]_vars

\* ============================================================ properties
\* element queries an operation sent to the browser (page-level lookups by
\* locator: find_element, find_elements, and the lookup of a reload)
IsQuery(e) == e.c \in {"find_element", "find_elements", "reload"} /\ Len(e.t) = 1
Queries(calls) == Cardinality({i \in 1..Len(calls) : IsQuery(calls[i])})
SingleSlots == {s \in Slots : ~many(s)}

\* C1: a single binding whose slot is empty, resolved twice with no navigation
\* in between, sends exactly one element query: the first resolve sends it,
\* the second returns the handle the first one memoized and sends none.
C1_ResolvedTwiceOneQuery ==
  \A s \in SingleSlots : cached_attrs[s].kind = "none" =>
    \A r1 \in Run(State, "get", s, 0, FALSE) : r1.exc = "none" =>
      /\ Queries(r1.w.calls) = 1
      /\ \A r2 \in Run(StateOf(r1.w), "get", s, 0, FALSE) :
           r2.exc = "none" /\ r2.val = r1.val /\ Queries(r2.w.calls) = 0
\* the slot of a single binding is memoized and a resolve answers from it
C1_Witness ==
  \E s \in SingleSlots :
    /\ cached_attrs[s].kind = "one"
    /\ \E r \in Run(State, "get", s, 0, FALSE) :
         r.exc = "none" /\ r.val = cached_attrs[s] /\ r.w.calls = <<>>

\* the navigations of a page, with the arguments that make them navigate
Navigations ==
  {[op |-> "open", a |-> u] : u \in valid_urls \cup {"None"}}
  \cup {[op |-> "open_redirect_url", a |-> u] : u \in Urls}
  \cup (IF tabs > 1
        THEN {[op |-> "focus_on_last_opened_tab", a |-> ""],
              [op |-> "focus_on_first_opened_tab", a |-> ""]}
        ELSE {})
EmptyCache(ca) == \A s \in Slots : ca[s] = NoneVal

\* C2: every navigation (open, open_redirect_url, and focus_on_last_opened_tab
\* or focus_on_first_opened_tab with more than one tab open) leaves the cache
\* empty, so the next access of any slot on the opened page sends a query.
C2_NavigationEmptiesCache ==
  \A n \in Navigations : \A r \in Run(State, n.op, n.a, 0, FALSE) :
    /\ EmptyCache(r.w.cached_attrs)
    /\ \A s \in Slots : \A r2 \in Run(StateOf(r.w), "get", s, 0, FALSE) :
         r2.exc = "PageNotOpened" \/ Queries(r2.w.calls) = 1
\* a slot is memoized, a navigation empties it and the next access queries
C2_Witness ==
  \E s \in Slots, n \in Navigations :
    /\ cached_attrs[s] # NoneVal
    /\ \E r \in Run(State, n.op, n.a, 0, FALSE) :
         /\ n.op = "focus_on_last_opened_tab"
         /\ EmptyCache(r.w.cached_attrs)
         /\ \E r2 \in Run(StateOf(r.w), "get", s, 0, FALSE) :
              r2.exc = "none" /\ Queries(r2.w.calls) = 1

\* the operations of a handle that run under catch_not_attach_to_session
HandleOps ==
  {[op |-> "find_element", f |-> FALSE]}
  \cup {[op |-> o, f |-> f] : o \in {"click", "click_and_wait"}, f \in BOOLEAN}
\* the browser did nothing to an operation but answer its commands: no
\* transport failure, no timeout, no missing element, no re-rendering meanwhile
Quiet(calls) ==
  \A i \in 1..Len(calls) :
    calls[i].r \notin {"other", "timeout", "notfound"} /\ calls[i].c # "rerender"
\* handle h holds a detached raw element and its locator matches an element
Detached(h) == ~IsLive(proxies[h].obj) /\ dom[proxies[h].locator] >= 1

\* C3: an operation on a handle whose first attempt finds the raw element
\* stale, and which the element the locator matches now would accept, returns
\* successfully: the caller sees no error.
C3_StaleFirstAttemptRecovers ==
  \A h \in Handles : Detached(h) =>
    \A m \in HandleOps : \A r \in Run(State, m.op, "", h, m.f) :
      Quiet(r.w.calls) => r.exc = "none"

\* commands an operation sent to a raw element (their target is an element)
IsRaw(e) == Len(e.t) = 3
RawAttempts(calls) == Cardinality({i \in 1..Len(calls) : IsRaw(calls[i])})
StaleAnswers(calls) ==
  Cardinality({i \in 1..Len(calls) : IsRaw(calls[i]) /\ calls[i].r = "stale"})
Reloads(calls) == Cardinality({i \in 1..Len(calls) : calls[i].c = "reload"})

\* C4: a handle operation whose raw command is answered stale on the first
\* attempt and stale again on the retry made after the re-resolution ends by
\* raising the stale-reference error to the caller.
C4_StaleTwicePropagates ==
  \A h \in Handles : \A m \in HandleOps : \A r \in Run(State, m.op, "", h, m.f) :
    StaleAnswers(r.w.calls) >= 2 => r.exc = "StaleElementReferenceException"

\* C5: one invocation of a handle operation (a forwarded method, click,
\* click_and_wait) re-resolves the handle at most once and sends the raw
\* command at most twice (the attempt and one retry), whatever stale faults
\* the browser produces.
C5_OneReloadOneRetry ==
  \A h \in Handles : \A m \in HandleOps : \A r \in Run(State, m.op, "", h, m.f) :
    Reloads(r.w.calls) <= 1 /\ RawAttempts(r.w.calls) <= 2

\* C6: a stale-reference fault raised by a property read of a handle (text,
\* value) is recovered as for a method call: the handle is re-resolved once,
\* and when the browser does nothing else the read returns successfully.
C6_PropertyReadRecovers ==
  \A h \in Handles : \A name \in Properties : \A r \in Run(State, name, "", h, FALSE) :
    StaleAnswers(r.w.calls) >= 1 =>
      /\ Reloads(r.w.calls) = 1
      /\ (Detached(h) /\ Quiet(r.w.calls) => r.exc = "none")

\* the browser failed a command of the operation with an error that is
\* neither stale-reference nor not-found
OtherFailure(calls) == \E i \in 1..Len(calls) : calls[i].r \in {"other", "timeout"}
\* the context a WebElementProxyException of handle h carries
Context(h) == IF proxies[h].attr_name # NoName THEN proxies[h].attr_name ELSE Marker

\* C7: when the browser fails a command of a handle operation with an error
\* other than stale-reference and not-found, on the first attempt or on the
\* retry after a recovery, the caller gets a WebElementProxyException carrying
\* the handle's slot name (the generic marker for an anonymous handle), and
\* nothing is sent to the browser after the failed command.
C7_OtherFailureWrapped ==
  \A h \in Handles : \A m \in HandleOps : \A r \in Run(State, m.op, "", h, m.f) :
    OtherFailure(r.w.calls) =>
      /\ r.exc = "WebElementProxyException"
      /\ r.el = Context(h)
      /\ r.w.calls[Len(r.w.calls)].r \in {"other", "timeout"}

\* the browser answered a raw command of the operation "no such element"
NotFoundAnswer(calls) ==
  \E i \in 1..Len(calls) : IsRaw(calls[i]) /\ calls[i].r = "notfound"

\* C8: a handle operation whose raw command fails with a not-found fault
\* raises that fault to the caller at once: no re-resolution query is sent,
\* the command is not sent again, and the handle's raw reference and the page
\* cache are what they were.
C8_NotFoundPropagates ==
  \A h \in Handles : \A m \in HandleOps : \A r \in Run(State, m.op, "", h, m.f) :
    NotFoundAnswer(r.w.calls) =>
      /\ r.exc = "NoSuchElementException"
      /\ Queries(r.w.calls) = 0 /\ Reloads(r.w.calls) = 0
      /\ RawAttempts(r.w.calls) = 1
      /\ r.w.proxies[h].obj = proxies[h].obj
      /\ r.w.cached_attrs = cached_attrs
\* a memoized handle whose sub-element search ends in "no such element"
C8_Witness ==
  \E h \in Handles :
    /\ proxies[h].attr_name # NoName
    /\ cached_attrs[proxies[h].attr_name] = One(h)
    /\ \E r \in Run(State, "find_element", "", h, FALSE) :
         NotFoundAnswer(r.w.calls) /\ r.exc = "NoSuchElementException"

\* the operation re-resolved its handle and the last re-resolution succeeded
Recovered(calls) ==
  \E i \in 1..Len(calls) :
    /\ calls[i].c = "reload" /\ calls[i].r = "ok"
    /\ \A j \in (i + 1)..Len(calls) : calls[j].c # "reload"

C10_ManyResolvesToSequence ==
  \A s \in Slots \ SingleSlots : \A r \in Run(State, "get", s, 0, FALSE) :
    r.exc = "none" =>
      /\ r.val.kind = "many"
      /\ \A i \in 1..Len(r.val.hs) : r.w.proxies[r.val.hs[i]].attr_name = s

\* the tabs the clicks of an operation opened
OpenedTabs(calls) ==
  {i \in 1..Len(calls) : calls[i].c = "opens_tabs"}
\* the windows an operation closed, and the window it switched to last
Closed(calls) == {calls[i].t[1] : i \in {j \in 1..Len(calls) : calls[j].c = "close"}}
LastCall(calls) == calls[Len(calls)]

\* C11: after click() (focus_on_opened_tab left at True) whose raw click
\* opened one or more tabs, exactly one tab is open: every earlier window was
\* closed, the session was switched last to the most recently opened window,
\* and the page cache is empty.
C11_ClickFocusesNewTab ==
  \A h \in Handles : \A r \in Run(State, "click", "", h, TRUE) :
    OpenedTabs(r.w.calls) # {} =>
      LET n == tabs + r.w.calls[CHOOSE i \in OpenedTabs(r.w.calls) : TRUE].t[1]
      IN /\ r.exc = "none"
         /\ r.w.tabs = 1 /\ r.w.focus = 1
         /\ Closed(r.w.calls) = 1..(n - 1)
         /\ LastCall(r.w.calls) = [c |-> "switch_to", t |-> <<n>>, r |-> "ok"]
         /\ EmptyCache(r.w.cached_attrs)
\* a click on a memoized handle opens a tab and ends focused on it
C11_Witness ==
  \E h \in Handles :
    /\ ~EmptyCache(cached_attrs)
    /\ \E r \in Run(State, "click", "", h, TRUE) :
         /\ OpenedTabs(r.w.calls) # {} /\ r.exc = "none"
         /\ r.w.tabs = 1 /\ EmptyCache(r.w.cached_attrs)

\* the step of click_and_wait a browser call belongs to (0: none of them)
Step(e) ==
  CASE e.c = "until" -> 1
    [] e.c = "click" /\ IsRaw(e) -> 2
    [] e.c = "opens_tabs" -> 3
    [] e.c \in {"switch_to", "close"} -> 4
    [] e.c = "wait_loader_not_visible" -> 5
    [] e.c = "wait_tableloader_not_visible" -> 6
    [] OTHER -> 0
\* the loader waits an operation made, in the order it made them
LoaderWaits(calls) == SelectSeq(calls, LAMBDA e : Step(e) \in {5, 6})
\* the loader waits a page with the loader classes `used` has to pass
ExpectedWaits(used) ==
  (IF "page_loader_css_class" \in used
   THEN <<[c |-> "wait_loader_not_visible", t |-> <<>>, r |-> "ok"]>> ELSE <<>>)
  \o (IF "table_loader_css_class" \in used
      THEN <<[c |-> "wait_tableloader_not_visible", t |-> <<>>, r |-> "ok"]>> ELSE <<>>)

\* C12: a click_and_wait() that returns has, from its last wait for the
\* element to be clickable on, made its calls in this order: the wait until
\* clickable, the raw click, the handling of opened tabs (when asked to and
\* more than one tab is open), the wait for the page loader, the wait for the
\* table loader; each configured loader was waited for once and successfully,
\* and a loader that is not configured was not waited for.
C12_ClickAndWaitOrder ==
  \A h \in Handles : \A f \in BOOLEAN : \A r \in Run(State, "click_and_wait", "", h, f) :
    r.exc = "none" =>
      LET calls == r.w.calls
          k == CHOOSE i \in 1..Len(calls) :
                 Step(calls[i]) = 1 /\ \A j \in (i + 1)..Len(calls) : Step(calls[j]) # 1
          tail == SubSeq(calls, k, Len(calls))
          managed == \E i \in 1..Len(tail) : Step(tail[i]) = 4
      IN /\ \E i \in 1..Len(calls) : Step(calls[i]) = 1
         /\ Len(tail) >= 2 /\ tail[1].r = "ok"
         /\ Step(tail[2]) = 2 /\ tail[2].r = "ok"
         /\ \A i \in 1..(Len(tail) - 1) :
              Step(tail[i]) >= 1 /\ Step(tail[i]) <= Step(tail[i + 1])
         /\ managed <=> (f /\ tabs + Cardinality(OpenedTabs(tail)) > 1)
         /\ LoaderWaits(calls) = ExpectedWaits(loaders)
\* a click_and_wait that handles an opened tab and returns on a page that
\* configures the table loader only
C12_Witness ==
  /\ loaders = {"table_loader_css_class"}
  /\ \E h \in Handles : \E r \in Run(State, "click_and_wait", "", h, TRUE) :
       /\ r.exc = "none" /\ OpenedTabs(r.w.calls) # {}
       /\ LoaderWaits(r.w.calls) = ExpectedWaits(loaders)

\* C13: constructing a binding with a value and no strategy gives it the
\* xpath strategy; constructing it with no value, with or without a strategy,
\* raises BasePageException and makes no binding.
C13_BindingConstruction ==
  outcome # Nothing =>
    /\ (~Falsy(invoked.value) /\ Falsy(invoked.search_by)) =>
         outcome = [exc |-> "none", search_by |-> "xpath",
                    value |-> invoked.value, many |-> invoked.many]
    /\ Falsy(invoked.value) => outcome = [exc |-> "BasePageException"]
\* a binding constructed with a strategy and no value was refused
C13_Witness ==
  /\ invoked \in [search_by : {"id"}, value : {None, ""}, many : BOOLEAN]
  /\ outcome = [exc |-> "BasePageException"]

\* the error a resolve raises when its query matches nothing
NotFoundError(s) == IF many(s) THEN "BasePageException" ELSE "NoSuchElementException"

\* C14: on the opened page, a first resolve whose locator matches no element
\* raises an error, for a single binding and for a many binding alike, after
\* one query; it writes nothing into the page cache, and a later resolve
\* sends a query again.
C14_ZeroMatchesRaises ==
  \A s \in Slots :
    (cached_attrs[s] = NoneVal /\ dom[value(s)] = 0 /\ opened_url \in valid_urls) =>
      \A r \in Run(State, "get", s, 0, FALSE) :
        /\ r.exc = NotFoundError(s)
        /\ Queries(r.w.calls) = 1
        /\ r.w.cached_attrs = cached_attrs /\ r.w.proxies = proxies
        /\ \A r2 \in Run(StateOf(r.w), "get", s, 0, FALSE) : Queries(r2.w.calls) = 1
\* both bindings of the opened page match nothing and their resolves raise
C14_Witness ==
  /\ opened_url \in valid_urls
  /\ \A s \in Slots :
       /\ cached_attrs[s] = NoneVal /\ dom[value(s)] = 0
       /\ \E r \in Run(State, "get", s, 0, FALSE) : r.exc = NotFoundError(s)

\* ---- header parsing
\* the parser returned an index map
Parsed == outcome # Nothing /\ outcome.exc = "none"
\* a cell whose span attribute is present and greater than 1
IsGroup(c) ==
  /\ "colspan" \in DOMAIN c.attrs
  /\ c.attrs["colspan"] \in Numerals
  /\ int(c.attrs["colspan"]) > 1
\* the header rows of a markup: top-level rows and rows directly inside a
\* top-level grouping container, in document order
HeaderRows(head) ==
  Flat([i \in 1..Len(head) |->
          IF head[i].tag = "tr" THEN <<head[i]>>
          ELSE IF head[i].tag = "div"
               THEN SelectSeq(head[i].kids, LAMBDA e : e.tag = "tr")
          ELSE <<>>])
\* the cells of the header rows, left to right, row after row
CellsOf(head) ==
  LET rows == HeaderRows(head)
  IN Flat([i \in 1..Len(rows) |-> rows[i].kids])
\* the genuine header cells
GenuineCells(head) ==
  SelectSeq(CellsOf(head), LAMBDA c : c.tag = "th" /\ ~IsGroup(c))
\* own text without line breaks and without surrounding whitespace
Normalized(text) ==
  LET s == SelectSeq(text.s, LAMBDA c : c # "\n")
      keep == {i \in 1..Len(s) : s[i] # " "}
  IN IF text.none \/ keep = {} THEN <<>>
     ELSE SubSeq(s, CHOOSE i \in keep : \A j \in keep : i <= j,
                    CHOOSE i \in keep : \A j \in keep : j <= i)
\* the value sits in the map of that name at index k
Sends(res, name, key, k) ==
  /\ name \in DOMAIN res
  /\ key \in DOMAIN res[name]
  /\ res[name][key] = k

\* C15: after a successful parse the k-th genuine header cell, counted left
\* to right over all header rows, is found at k under its normalized own
\* text in the text map and under each non-empty tracked attribute value it
\* carries in that attribute's map; no map exists for an untracked attribute.
C15_GenuineCellsIndexed ==
  Parsed =>
    LET g == GenuineCells(invoked.head)
    IN /\ \A k \in 1..Len(g) :
            /\ Sends(outcome.res, invoked.tag_text_key,
                     Normalized(g[k].text), k)
            /\ \A n \in DOMAIN g[k].attrs \cap invoked.attributes :
                 g[k].attrs[n] # "" =>
                   Sends(outcome.res, n, g[k].attrs[n], k)
       /\ DOMAIN outcome.res \subseteq
            {invoked.tag_text_key} \cup invoked.attributes

\* the markup with every group label taken out of its row
RECURSIVE WithoutGroupCells(_)
WithoutGroupCells(head) ==
  [i \in 1..Len(head) |->
     [head[i] EXCEPT !.kids =
        IF head[i].tag = "tr"
        THEN SelectSeq(head[i].kids, LAMBDA c : ~IsGroup(c))
        ELSE WithoutGroupCells(head[i].kids)]]
\* C16: a header cell whose span is present and greater than 1 is a group
\* label: the parse answers exactly what it answers for the markup without
\* the group labels, so a group label is no key of any map and the genuine
\* cells after it keep the numbers they have without it.
C16_GroupLabelsSkipped ==
  outcome # Nothing =>
    outcome = parse_table_thead(WithoutGroupCells(invoked.head),
                                invoked.tag_text_key, invoked.attributes)
\* a group label stands before a genuine cell of a parsed header
C16_Witness ==
  /\ Parsed
  /\ LET c == CellsOf(invoked.head)
     IN \E i, j \in 1..Len(c) :
          /\ i < j /\ IsGroup(c[i])
          /\ c[j].tag = "th" /\ ~IsGroup(c[j])
          /\ Sends(outcome.res, invoked.tag_text_key, Normalized(c[j].text), 1)

\* two genuine cells of the header rows show the same normalized text
SameTextTwice(head) ==
  LET g == GenuineCells(head)
  IN \E i, j \in 1..Len(g) :
       i < j /\ Normalized(g[i].text) = Normalized(g[j].text)
\* two genuine cells of one header row show the same normalized text
SameTextInOneRow(head) ==
  \E r \in 1..Len(HeaderRows(head)) : SameTextTwice(<<HeaderRows(head)[r]>>)
Unwrapped(head) ==
  Flat([i \in 1..Len(head) |->
          IF head[i].tag = "div"
          THEN SelectSeq(head[i].kids, LAMBDA e : e.tag = "tr")
          ELSE <<head[i]>>])
\* the markup with every top-level row put into a grouping container
Wrapped(head) ==
  [i \in 1..Len(head) |->
     IF head[i].tag = "tr" THEN Div(<<head[i]>>) ELSE head[i]]
\* C18: rows are taken, in document order, from the top level of the markup
\* and from directly inside a top-level grouping container, no deeper: the
\* parse answers the same for the markup, for the markup with those rows
\* moved to the top level and for the markup with its top-level rows wrapped.
C18_BothLayoutsSameMap ==
  outcome # Nothing =>
    /\ outcome = parse_table_thead(Unwrapped(invoked.head),
                                   invoked.tag_text_key, invoked.attributes)
    /\ outcome = parse_table_thead(Wrapped(invoked.head),
                                   invoked.tag_text_key, invoked.attributes)
\* a parsed header has one row at the top level and one in a container
C18_Witness ==
  /\ Parsed
  /\ \E i, j \in 1..Len(invoked.head) :
       /\ invoked.head[i].tag = "tr"
       /\ invoked.head[j].tag = "div"
       /\ \E e \in 1..Len(invoked.head[j].kids) :
            invoked.head[j].kids[e].tag = "tr"
  /\ Len(GenuineCells(invoked.head)) = 2
  /\ invoked.tag_text_key \in DOMAIN outcome.res

Parses(calls) ==
  Cardinality({i \in 1..Len(calls) : calls[i].c = "parse_table_thead"})
\* the first access of an epoch: the slot of the table is empty
TableFirstAccess ==
  cached_attrs[TableSlot] = NoneVal =>
    \A head \in TableHeads : \A r \in Run(State, "get_table", head, 0, FALSE) :
      (r.exc = "none" /\ StaleAnswers(r.w.calls) = 0) =>
        /\ Queries(r.w.calls) = 1
        /\ Parses(r.w.calls) = 1
        /\ r.val.kind = "table"
        /\ r.w.cached_attrs[TableSlot] = r.val
        /\ r.val.columns_indexes =
             parse_table_thead(head, head_tag_text_key, head_search_attrs).res
        /\ r.val.real_column_count = Len(GenuineCells(head))
\* a later access: the slot holds the table
TableLaterAccess ==
  cached_attrs[TableSlot].kind = "table" =>
    \A head \in TableHeads : \A r \in Run(State, "get_table", head, 0, FALSE) :
      /\ r.exc \in {"none", "PageNotOpened"}
      /\ r.w.calls = <<>>
      /\ r.w.cached_attrs = cached_attrs
      /\ r.exc = "none" => r.val = cached_attrs[TableSlot]
\* a step that leaves the table in its slot leaves its columns as they are
TableKeepsColumns ==
  (cached_attrs[TableSlot].kind = "table"
     /\ cached_attrs'[TableSlot].kind = "table") =>
    /\ cached_attrs'[TableSlot].columns_indexes =
         cached_attrs[TableSlot].columns_indexes
    /\ cached_attrs'[TableSlot].real_column_count =
         cached_attrs[TableSlot].real_column_count
\* C20: in one epoch and with no stale answer, the first access of the table
\* binding sends one root query and parses the header once; every later
\* access returns the table in the cache and neither queries nor parses; the
\* column-index map and real_column_count of the table do not change while
\* the table stays in the cache.
C20_TableBuiltOncePerEpoch ==
  /\ [](TableFirstAccess /\ TableLaterAccess)
  /\ [][TableKeepsColumns]_vars
\* the cache holds a table of two columns while the browser would answer a
\* header that parses to another index map
C20_Witness ==
  /\ cached_attrs[TableSlot].kind = "table"
  /\ cached_attrs[TableSlot].real_column_count = 2
  /\ \E head \in TableHeads :
       LET p == parse_table_thead(head, head_tag_text_key, head_search_attrs)
       IN p.exc = "none"
          /\ p.res # cached_attrs[TableSlot].columns_indexes

\* ---- columns
\* the columns declared by an (attribute name, attribute value) pair
AttributeColumns == {c \in Columns : ~Falsy(c.search_attr_value)}
\* the genuine positions of a header at which the cell carries the
\* attribute pair of the column
PositionsOf(head, column) ==
  {k \in 1..Len(GenuineCells(head)) :
     attr_get(GenuineCells(head)[k], column.search_attr_name)
       = column.search_attr_value}
\* C21: for a column declared by an attribute pair whose header cell stands
\* at genuine position k, page.table.<column>.index returns k whenever the
\* table is resolved through the page, the first access of the first epoch
\* included.
C21_AttributeColumnIndex ==
  cached_attrs[TableSlot] = NoneVal =>
    \A head \in TableHeads : \A column \in AttributeColumns :
      \A k \in PositionsOf(head, column) :
        \A r \in Run(State, "column.index",
                     [head |-> head, column |-> column], 0, FALSE) :
          r.exc = "none" => r.val = IntVal(k)

\* what the header map ci answers for a column: the attribute map for a
\* column with an attribute pair, the text map for any other
HeaderMapIndex(ci, column) ==
  IF column \in AttributeColumns
  THEN dict_get(default_get(ci, column.search_attr_name),
                column.search_attr_value)
  ELSE dict_get(default_get(ci, head_tag_text_key), column.visible_name)
\* the genuine position at which a header shows the column: by its attribute
\* pair when the table tracks the attribute, by its visible name when the
\* column has no pair
PositionIn(head, column, tracked) ==
  LET g == GenuineCells(head)
      at == IF column \in AttributeColumns
            THEN IF column.search_attr_name \in tracked
                 THEN PositionsOf(head, column) ELSE {}
            ELSE {k \in 1..Len(g) : Normalized(g[k].text) = column.visible_name}
  IN IF at = {} THEN NoneVal ELSE IntVal(CHOOSE k \in at : TRUE)
Stripped(text) ==
  LET keep == {i \in 1..Len(text.s) : text.s[i] \notin {" ", "\n"}}
  IN IF keep = {} THEN <<>>
     ELSE SubSeq(text.s, CHOOSE i \in keep : \A j \in keep : i <= j,
                         CHOOSE i \in keep : \A j \in keep : j <= i)
\* C25: parsing a row gives one entry per cell, left to right: the own text
\* of the cell without leading and trailing whitespace, or None for a cell
\* with no own text; a markup whose root is no row is rejected with an error.
C25_RowParsedCellByCell ==
  outcome # Nothing =>
    IF invoked.row.tag = "tr"
    THEN /\ outcome.exc = "none"
         /\ Len(outcome.res) = Len(invoked.row.kids)
         /\ \A i \in 1..Len(invoked.row.kids) :
              outcome.res[i] =
                IF invoked.row.kids[i].text.none THEN NoText
                ELSE Str(Stripped(invoked.row.kids[i].text))
    ELSE outcome = [exc |-> "ValueError"]
\* a row of two cells was parsed: one with text between whitespace, one with
\* no own text
C25_Witness ==
  /\ outcome # Nothing /\ outcome.exc = "none"
  /\ Len(outcome.res) = 2
  /\ outcome.res[1] = Str(<<"test", " ", "Campaign">>)
  /\ outcome.res[2] = NoText

\* ---- table lookups
\* what a cell shows: its own text without the whitespace around it, or None
Shown(cell) == IF cell.text.none THEN NoText ELSE Str(Stripped(cell.text))
\* the values of the k-th cells of the body rows, from the top
CellsOfColumn(body, k) ==
  LET has(row) == Len(row.kids) >= k
      rows == SelectSeq(body, has)
  IN [i \in 1..Len(rows) |-> Shown(rows[i].kids[k])]
\* the lookup ran undisturbed on a table whose header shows the column: the
\* page is open, the browser answered every command, and the table in the
\* cache has an index for the column
Undisturbed(r, column) ==
  /\ opened_url \in valid_urls
  /\ Quiet(r.w.calls) /\ StaleAnswers(r.w.calls) = 0
  /\ r.w.cached_attrs[TableSlot].kind = "table"
  /\ HeaderMapIndex(r.w.cached_attrs[TableSlot].columns_indexes, column).kind = "int"
\* C23: <column>.get_index_by_value(v) returns the position, from 1, of the
\* first cell of the column whose value is v, and raises TableElementNotFound
\* when no cell of the column has the value v.
C23_IndexByValue ==
  \A head \in TableHeads : \A body \in TableBodies :
    \A column \in Columns : \A v \in SearchedValues :
      \A r \in Run(State, "column.get_index_by_value",
                   [head |-> head, body |-> body, column |-> column, value |-> v],
                   0, FALSE) :
        Undisturbed(r, column) =>
          LET k == HeaderMapIndex(r.w.cached_attrs[TableSlot].columns_indexes,
                                  column).n
              cells == CellsOfColumn(body, k)
              at == {i \in 1..Len(cells) : cells[i] = v}
          IN IF at = {} THEN r.exc = "TableElementNotFound"
             ELSE /\ r.exc = "none"
                  /\ r.val = IntVal(CHOOSE i \in at : \A j \in at : i <= j)

\* the browser answered every command of the lookup, nothing was re-rendered
\* meanwhile, and the lookup had the table of the page to work on
Calm(r) ==
  /\ opened_url \in valid_urls
  /\ \A i \in 1..Len(r.w.calls) :
       r.w.calls[i].r \notin {"other", "timeout", "stale"} /\ r.w.calls[i].c # "rerender"
  /\ r.w.cached_attrs[TableSlot].kind = "table"
\* the header does not show the column: no genuine cell has its visible name,
\* or its attribute pair when it is declared by one
Unknown(head, column) ==
  IF column \in AttributeColumns THEN PositionsOf(head, column) = {}
  ELSE \A k \in 1..Len(GenuineCells(head)) :
         Normalized(GenuineCells(head)[k].text) # column.visible_name
\* a row index that matches no row raises TableRowNotFound
RowMissing ==
  \A head \in TableHeads : \A body \in TableBodies :
    \A index \in (Len(body) + 1)..(MaxRows + 1) :
      \A r \in Run(State, "table.get_row_values_by_index",
                   [head |-> head, body |-> body, index |-> index], 0, FALSE) :
        Calm(r) => r.exc = "TableRowNotFound"
\* a column index beyond the column count raises TableColumnNotFound
ColumnIndexMissing ==
  \A head \in TableHeads : \A body \in TableBodies :
    \A index \in 1..(MaxCells + 2) :
      \A r \in Run(State, "table.get_column_values_by_index",
                   [head |-> head, body |-> body, index |-> index], 0, FALSE) :
        (Calm(r) /\ index > r.w.cached_attrs[TableSlot].real_column_count)
          => r.exc = "TableColumnNotFound"
\* a column the header does not show, by its visible name or by its attribute
\* value, raises TableColumnNotFound when its index or its values are asked
ColumnMissing ==
  cached_attrs[TableSlot] = NoneVal =>
    \A head \in TableHeads : \A body \in TableBodies :
      \A column \in {c \in Columns : Unknown(head, c)} :
        /\ \A r \in Run(State, "column.index",
                        [head |-> head, column |-> column], 0, FALSE) :
             Calm(r) => r.exc = "TableColumnNotFound"
        /\ \A r \in Run(State, "column.values",
                        [head |-> head, body |-> body, column |-> column], 0, FALSE) :
             Calm(r) => r.exc = "TableColumnNotFound"
\* any other element of the table that is looked up and not there raises
\* TableElementNotFound
ElementMissing ==
  \A head \in TableHeads : \A body \in TableBodies :
    \A xpath \in {x \in ItemXpaths : XpathMatches(body, TableLocator \o x) = <<>>} :
      \A r \in Run(State, "table.get_item_by_xpath",
                   [head |-> head, body |-> body, xpath |-> xpath], 0, FALSE) :
        Calm(r) => r.exc = "TableElementNotFound"
\* C24: the lookups of a table fail with an error that tells the kind: a row
\* index that matches no row raises TableRowNotFound; a column the header
\* does not have (an index beyond the column count, an unknown visible name,
\* an unknown attribute value) raises TableColumnNotFound; any other lookup
\* of a table element that matches nothing raises TableElementNotFound.
C24_LookupErrorsByKind ==
  RowMissing /\ ColumnIndexMissing /\ ColumnMissing /\ ElementMissing

\* ---- groups of elements
\* the arguments of get that fit the fragments of the group, and those that
\* do not
Fitting == {n \in Numbers : Len(n) = Len(invoked.base_name_parts)}
\* page.<group>.get(*numbers) run in state st
GetOf(st, numbers) ==
  Run(st, "grouped.get", [acc |-> invoked, numbers |-> numbers], 0, FALSE)
\* the bindings constructed during an operation
Constructed(calls) ==
  Cardinality({i \in 1..Len(calls) : calls[i].c = "ElementDescriptor"})
\* C26: get with a number of arguments that differs from the number of
\* fragments raises BasePageException before any binding is constructed and
\* before any query is sent: the page and its session are as they were.
C26_CountMismatchRaises ==
  \A numbers \in Numbers \ Fitting :
    \A r \in GetOf(State, numbers) :
      /\ r.exc = "BasePageException"
      /\ r.w.calls = <<>>
      /\ StateOf(r.w) = State
\* a page that is open and has resolved an element of the group is asked for
\* one with too many or too few arguments
C26_Witness ==
  /\ opened_url \in valid_urls
  /\ page_dict # NoBindings
  /\ \E s \in DOMAIN cached_attrs : cached_attrs[s] # NoneVal
  /\ \E n1 \in Numbers \ Fitting : \E n2 \in Numbers \ Fitting :
       /\ Len(n1) < Len(invoked.base_name_parts)
       /\ Len(n2) > Len(invoked.base_name_parts)
       /\ \E r \in GetOf(State, n1) : r.exc = "BasePageException"
       /\ \E r \in GetOf(State, n2) : r.exc = "BasePageException"

\* the fragments of the group and the arguments, one after the other, then
\* the end fragment, the empty ones left out
Pieces(acc, numbers) ==
  LET all == [i \in 1..(2 * Len(numbers)) |->
                IF i % 2 = 1 THEN acc.base_name_parts[(i + 1) \div 2]
                ELSE ToString(numbers[i \div 2])]
          \o (IF acc.end_name_part = None THEN <<>> ELSE <<acc.end_name_part>>)
      filled(p) == p # ""
  IN SelectSeq(all, filled)
\* the concrete name: the pieces with an underscore between them
Interleaved(acc, numbers) == join("_", Pieces(acc, numbers))
\* C27: get(*numbers) names the element by the fragments interleaved with
\* the arguments and the end fragment; it constructs the binding of that name
\* on the page when the page has none yet and never again, in any epoch; it
\* resolves the binding through the page cache, so that two calls with the
\* same arguments in one epoch send one locator query and return the same
\* value; other arguments give another name and leave the slot alone.
C27_GroupedGetByName ==
  \A numbers \in Fitting :
    LET name == Interleaved(invoked, numbers)
    IN \A r1 \in GetOf(State, numbers) :
         /\ DOMAIN r1.w.page_dict = DOMAIN page_dict \cup {name}
         /\ \A n \in DOMAIN page_dict : r1.w.page_dict[n] = page_dict[n]
         /\ r1.w.page_dict[name].value
              = "//*[@data-e2e=\"" \o name \o "\"]"
         /\ Constructed(r1.w.calls) = IF name \in DOMAIN page_dict THEN 0 ELSE 1
         /\ r1.exc = "none" =>
              /\ r1.val = r1.w.cached_attrs[name]
              /\ \A s \in DOMAIN cached_attrs \ {name} :
                   r1.w.cached_attrs[s] = cached_attrs[s]
              /\ Queries(r1.w.calls) = IF cached_attrs[name] = NoneVal THEN 1 ELSE 0
              /\ \A r2 \in GetOf(StateOf(r1.w), numbers) :
                   /\ r2.exc = "none" /\ r2.val = r1.val
                   /\ Queries(r2.w.calls) = 0 /\ Constructed(r2.w.calls) = 0
              /\ \A other \in Fitting \ {numbers} :
                   /\ Interleaved(invoked, other) # name
                   /\ \A r2 \in GetOf(StateOf(r1.w), other) :
                        /\ r2.w.cached_attrs[name] = r1.val
                        /\ r2.exc = "none" => r2.val # r1.val
\* the page has constructed the binding "row_1_col_2_foo" and holds its
\* element in the cache: get(1, 2) answers from the cache without a query or
\* a construction, get(2, 1) constructs and resolves another element
C27_Witness ==
  /\ "row_1_col_2_foo" \in DOMAIN page_dict
  /\ "row_1_col_2_foo" \in DOMAIN cached_attrs
  /\ cached_attrs["row_1_col_2_foo"].kind = "one"
  /\ \E r \in GetOf(State, <<1, 2>>) :
       /\ r.exc = "none" /\ r.w.calls = <<>>
       /\ r.val = cached_attrs["row_1_col_2_foo"]
       /\ \E r2 \in GetOf(State, <<2, 1>>) :
            /\ r2.exc = "none" /\ r2.val # r.val
            /\ Constructed(r2.w.calls) = 1 /\ Queries(r2.w.calls) = 1

\* ---- a page that is not opened
\* C28: while the url of the focused window is none of the valid urls of the
\* page, resolving an element binding or the table binding raises
\* PageNotOpened, sends no query and leaves the cache as it was, whether the
\* slot holds a value or not.
C28_NotOpenedRaises ==
  opened_url \notin valid_urls =>
    /\ \A s \in DOMAIN cached_attrs \ {TableSlot} :
         \A r \in Run(State, "get", s, 0, FALSE) :
           /\ r.exc = "PageNotOpened"
           /\ r.w.calls = <<>>
           /\ r.w.cached_attrs = cached_attrs
    /\ TableSlot \in DOMAIN cached_attrs =>
         \A head \in TableHeads :
           \A r \in Run(State, "get_table", head, 0, FALSE) :
             /\ r.exc = "PageNotOpened"
             /\ r.w.calls = <<>>
             /\ r.w.cached_attrs = cached_attrs
\* the window shows another url and the slot of the element binding holds a
\* handle (one that recovered from staleness after the navigation): the
\* binding raises PageNotOpened all the same
C28_Witness ==
  /\ opened_url \notin valid_urls
  /\ "element" \in DOMAIN cached_attrs
  /\ cached_attrs["element"].kind = "one"
  /\ \E r \in Run(State, "get", "element", 0, FALSE) : r.exc = "PageNotOpened"

\* ---- anonymous handles
\* the handles other than h are what they were, but for the age of the
\* elements the application rendered anew
OthersKept(ps, qs, h) ==
  /\ Len(qs) = Len(ps)
  /\ \A i \in 1..Len(ps) : i # h =>
       /\ qs[i].locator = ps[i].locator /\ qs[i].attr_name = ps[i].attr_name
       /\ qs[i].obj \in {ps[i].obj, <<ps[i].obj[1], 1, ps[i].obj[3]>>}
\* an operation on the anonymous handle h, run in state st with cache and
\* handles as st has them, leaves the cache alone when it re-resolves h
AnonymousKeepsCache(st, h) ==
  \A m \in HandleOps : \A r \in Run(st, m.op, "", h, m.f) :
    (Reloads(r.w.calls) >= 1 /\ ~r.w.nav) =>
      /\ r.w.cached_attrs = st.cached_attrs
      /\ OthersKept(st.proxies, r.w.proxies, h)
      /\ r.w.proxies[h].locator = st.proxies[h].locator
      /\ r.w.proxies[h].attr_name = NoName
      /\ Recovered(r.w.calls) => r.w.proxies[h].obj[1] = st.proxies[h].locator
\* C29: when an operation on a handle with no slot name (made by a one-off
\* page.find_element) re-resolves the handle, the cache has the same slots
\* with the same values afterwards and no other handle changes: only the raw
\* reference of that handle is replaced.
C29_AnonymousRecoveryKeepsCache ==
  /\ \A h \in Handles : proxies[h].attr_name = NoName =>
       AnonymousKeepsCache(State, h)
  /\ \A L \in DOMAIN dom : \A r1 \in Run(State, "page.find_element", L, 0, FALSE) :
       r1.exc = "none" => AnonymousKeepsCache(StateOf(r1.w), r1.val.hs[1])
\* the cache holds the handle of `element`; a one-off find makes an anonymous
\* handle, which a click re-resolves after a re-rendering: the click goes
\* through, the anonymous handle holds an element of the new rendering and
\* the cache is as it was
C29_Witness ==
  /\ "element" \in DOMAIN cached_attrs
  /\ cached_attrs["element"].kind = "one"
  /\ \E L \in DOMAIN dom : \E r1 \in Run(State, "page.find_element", L, 0, FALSE) :
       /\ r1.exc = "none"
       /\ \E r2 \in Run(StateOf(r1.w), "click", "", r1.val.hs[1], FALSE) :
            /\ r2.exc = "none" /\ Recovered(r2.w.calls) /\ ~r2.w.nav
            /\ r2.w.cached_attrs = cached_attrs
            /\ IsLive(r2.w.proxies[r1.val.hs[1]].obj)

\* ---- what a handle keeps
\* every operation the test can run on the page and on its handles
Operations ==
  {[op |-> "get", a |-> s, h |-> 0, f |-> FALSE] : s \in Slots}
  \cup {[op |-> "page.find_element", a |-> L, h |-> 0, f |-> FALSE] : L \in Locators}
  \cup {[op |-> "open", a |-> u, h |-> 0, f |-> FALSE] : u \in Urls \cup {"None"}}
  \cup {[op |-> "open_redirect_url", a |-> u, h |-> 0, f |-> FALSE] : u \in Urls}
  \cup {[op |-> o, a |-> "", h |-> 0, f |-> FALSE] :
          o \in {"focus_on_last_opened_tab", "focus_on_first_opened_tab"}}
  \cup {[op |-> o, a |-> "", h |-> h, f |-> f] :
          o \in {"find_element", "click", "click_and_wait", "text", "value"},
          h \in Handles, f \in BOOLEAN}
SlotOperations(st) ==
  {[op |-> "get", a |-> s, h |-> 0, f |-> FALSE, slot |-> s] : s \in Slots}
  \cup {[op |-> "page.find_element", a |-> L, h |-> 0, f |-> FALSE, slot |-> NoName]
          : L \in Locators}
  \cup {[op |-> o, a |-> "", h |-> h, f |-> f, slot |-> st.proxies[h].attr_name] :
          o \in {"find_element", "click", "click_and_wait", "text", "value"},
          h \in 1..Len(st.proxies), f \in BOOLEAN}
\* result r of an operation run in state st left every slot but `slot` as it
\* was, unless it went through a navigation
KeptBut(st, r, slot) ==
  ~r.w.nav =>
    /\ DOMAIN r.w.cached_attrs = DOMAIN st.cached_attrs
    /\ \A s \in DOMAIN st.cached_attrs \ {slot} :
         r.w.cached_attrs[s] = st.cached_attrs[s]
\* in state st, every such operation, and reload_element of a handle or of a
\* list of handles, kept the slots it does not concern
OthersUnchanged(st) ==
  /\ \A m \in SlotOperations(st) : \A r \in Run(st, m.op, m.a, m.h, m.f) :
       KeptBut(st, r, m.slot)
  /\ \A el \in Reloadable(st) : \A r \in Run(st, "reload_element", el, 0, FALSE) :
       KeptBut(st, r, st.proxies[el.hs[1]].attr_name)
\* C31: only the navigations (open, open_redirect_url, a change of the
\* focused tab) empty the cache as a whole. A resolve, an operation on a
\* handle with the re-resolutions it makes, and reload_element change at most
\* the slot they concern and leave every other slot as it was, on the page as
\* it is and on the page after one more resolve.
C31_OnlyNavigationEmptiesCache ==
  /\ OthersUnchanged(State)
  /\ \A s \in Slots : \A r1 \in Run(State, "get", s, 0, FALSE) :
       r1.exc = "none" => OthersUnchanged(StateOf(r1.w))
\* the cache holds the handle of `element`; the many binding is resolved and
\* its list handed to reload_element, and its first handle re-resolved in a
\* click: the slot of `element` holds what it held
C31_Witness ==
  /\ cached_attrs["element"].kind = "one"
  /\ \E r1 \in Run(State, "get", "elements", 0, FALSE) :
       /\ r1.exc = "none"
       /\ \E r2 \in Run(StateOf(r1.w), "reload_element", r1.val, 0, FALSE) :
            /\ r2.exc = "none"
            /\ r2.w.cached_attrs["elements"] = NoneVal
            /\ r2.w.cached_attrs["element"] = cached_attrs["element"]
       /\ \E r2 \in Run(StateOf(r1.w), "click", "", r1.val.hs[1], FALSE) :
            /\ r2.exc = "none" /\ Recovered(r2.w.calls) /\ ~r2.w.nav
            /\ r2.w.cached_attrs["elements"] # r1.val
            /\ r2.w.cached_attrs["element"] = cached_attrs["element"]

\* ---- a table resolution that fails
\* C32: when the first access of the table binding in an epoch fails at any
\* step (the root is not found, the header element is missing, the header
\* does not parse, the browser fails), the access raises and the slot of the
\* table stays empty, and an access that succeeds later sends the root query
\* and parses the header.
C32_NoPartialTable ==
  cached_attrs[TableSlot] = NoneVal =>
    \A head \in TableHeads : \A r \in Run(State, "get_table", head, 0, FALSE) :
      r.exc # "none" =>
        /\ r.w.cached_attrs[TableSlot] = NoneVal
        /\ \A next \in TableHeads :
             \A r2 \in Run(StateOf(r.w), "get_table", next, 0, FALSE) :
               (r2.exc = "none" /\ StaleAnswers(r2.w.calls) = 0) =>
                 /\ r2.val.kind = "table"
                 /\ Queries(r2.w.calls) = 1 /\ Parses(r2.w.calls) = 1

\* ---- a plain click
\* the raw clicks an operation sent
RawClicks(calls) ==
  Cardinality({i \in 1..Len(calls) : IsRaw(calls[i]) /\ calls[i].c = "click"})
RetriesAfter(r, i) ==
  {j \in (i + 1)..Len(r.w.calls) :
     /\ IsRaw(r.w.calls[j])
     /\ \A k \in (i + 1)..Len(r.w.calls) : r.w.calls[k].c # "rerender"}
\* C34: when an operation on a handle (one forwarded to the raw element, or
\* the handle's own click and click_and_wait) is retried after a successful
\* re-resolution, the retry is sent to the raw element the re-resolution
\* found, which is the one the handle holds afterwards, and not to the stale
\* element of the first attempt.
C34_RetryOnNewReference ==
  \A h \in Handles : \A m \in HandleOps : \A r \in Run(State, m.op, "", h, m.f) :
    ~r.w.nav =>
      \A i \in 1..Len(r.w.calls) :
        (r.w.calls[i].c = "reload" /\ r.w.calls[i].r = "ok") =>
          \A j \in RetriesAfter(r, i) :
            /\ r.w.calls[j].t = r.w.proxies[h].obj
            /\ IsLive(r.w.calls[j].t)

\* ---- what the slot of the table holds
\* C35: whatever resolves, queries and recoveries came before, the slot of
\* the table binding is empty or holds the Table model, never a bare element
\* handle; and page.table, when it returns, returns the Table model with its
\* header map and leaves that model in the slot.
C35_SlotHoldsTable ==
  /\ cached_attrs[TableSlot].kind \in {"none", "table"}
  /\ \A head \in TableHeads : \A r \in Run(State, "get_table", head, 0, FALSE) :
       r.exc = "none" =>
         /\ r.val.kind = "table"
         /\ r.w.cached_attrs[TableSlot] = r.val

\* ---- a re-resolution that finds nothing
\* the re-resolutions of an operation whose query matched no element
LostReloads(calls) ==
  {i \in 1..Len(calls) : calls[i].c = "reload" /\ calls[i].r = "notfound"}
\* C36: when the query of the re-resolution of a slot-bound handle matches
\* no element, the operation raises that failure (NoSuchElementException) to
\* the caller and sends no command after the failed query (no retry); the
\* handle holds the raw element it held, the slot of the handle is empty, and
\* the next resolve of the slot on the opened page sends a query and does not
\* return the stale handle.
C36_FailedRecovery ==
  \A h \in Handles : proxies[h].attr_name # NoName =>
    \A m \in HandleOps : \A r \in Run(State, m.op, "", h, m.f) :
      \A i \in LostReloads(r.w.calls) :
        /\ r.exc = "NoSuchElementException"
        /\ i = Len(r.w.calls)
        /\ RawAttempts(r.w.calls) = 1 /\ Reloads(r.w.calls) = 1
        /\ r.w.proxies[h].obj \in
             {proxies[h].obj, Older(proxies[h].obj, {proxies[h].locator})}
        /\ ~IsLive(r.w.proxies[h].obj)
        /\ r.w.cached_attrs[proxies[h].attr_name] = NoneVal
        /\ \A r2 \in Run(StateOf(r.w), "get", proxies[h].attr_name, 0, FALSE) :
             \/ r2.exc = "PageNotOpened" /\ opened_url \notin valid_urls
             \/ /\ Queries(r2.w.calls) = 1
                /\ r2.exc = "none" => h \notin {r2.val.hs[k] : k \in 1..Len(r2.val.hs)}
\* a detached handle that its slot holds is clicked when its locator matches
\* nothing: the click raises, and the slot is empty afterwards
C36_Witness ==
  \E h \in Handles :
    /\ proxies[h].attr_name # NoName
    /\ cached_attrs[proxies[h].attr_name] = One(h)
    /\ dom[proxies[h].locator] = 0
    /\ \E r \in Run(State, "click", "", h, TRUE) :
         /\ LostReloads(r.w.calls) # {}
         /\ r.exc = "NoSuchElementException"
         /\ r.w.cached_attrs[proxies[h].attr_name] = NoneVal
         /\ \E r2 \in Run(StateOf(r.w), "get", proxies[h].attr_name, 0, FALSE) :
              r2.exc = "NoSuchElementException" /\ Queries(r2.w.calls) = 1

\* ---- the numbers in the header maps
\* the values of a map
Range(d) == {d[k] : k \in DOMAIN d}
\* the key parse_table_thead files a genuine cell under
TextKey(c) == format_tag_text(c.text)
\* C37: after a successful parse the values of the text map are exactly
\* 1..real_column_count (the number of its keys), no two keys have the same
\* value, the k-th genuine cell (left to right over all header rows) has the
\* value k, and every value n of the map of a tracked attribute lies in
\* 1..real_column_count and is the number of a genuine cell that carries the
\* attribute with that value.
C37_HeaderNumbers ==
  Parsed =>
    LET g == GenuineCells(invoked.head)
        text == default_get(outcome.res, invoked.tag_text_key)
        real_column_count == Cardinality(DOMAIN text)
    IN /\ Range(text) = 1..real_column_count
       /\ \A a, b \in DOMAIN text : text[a] = text[b] => a = b
       /\ real_column_count = Len(g)
       /\ \A k \in 1..Len(g) : Sends(outcome.res, invoked.tag_text_key, TextKey(g[k]), k)
       /\ \A name \in DOMAIN outcome.res \ {invoked.tag_text_key} :
            \A v \in DOMAIN outcome.res[name] :
              LET n == outcome.res[name][v]
              IN /\ n \in 1..real_column_count
                 /\ name \in DOMAIN g[n].attrs /\ g[n].attrs[name] = v
                 /\ text[TextKey(g[n])] = n

\* ---- open with a url the page does not have
\* C38: open(custom_url) with a custom url that matches none of the valid
\* urls of the page raises PageNotOpened before any navigation: it sends the
\* browser nothing, and the url of the focused window, the tabs, the handles
\* and the cache are what they were before the call.
C38_OpenRejectsUnknownUrl ==
  \A u \in Urls \ valid_urls : \A r \in Run(State, "open", u, 0, FALSE) :
    /\ r.exc = "PageNotOpened"
    /\ r.w.calls = <<>>
    /\ ~r.w.nav
    /\ current_url(r.w) = opened_url
    /\ r.w.tabs = tabs /\ r.w.focus = focus
    /\ r.w.proxies = proxies
    /\ r.w.cached_attrs = cached_attrs
\* the page is open with a handle in its cache and is asked to open a url it
\* does not have: the call raises and the slot holds the handle still
C38_Witness ==
  /\ opened_url \in valid_urls
  /\ ~EmptyCache(cached_attrs)
  /\ \E u \in Urls \ valid_urls : \E r \in Run(State, "open", u, 0, FALSE) :
       /\ r.exc = "PageNotOpened"
       /\ r.w.cached_attrs = cached_attrs
       /\ current_url(r.w) = opened_url

\* ------------------------------------------------- the page classes
\* The class statements of a test suite, run one after the other.  Here
\* `invoked` is the sequence of the statements run so far and `outcome` the
\* interpreter after them: the list objects (lists, a list is named by its
\* place) and the __dict__ of every class (dicts; 0 is BasePage, c >= 1 the
\* class of the c-th statement).
MaxClasses == 3
\* config.BASE_APP_CONFIG[app_name]["base_url"]
base_url == "http://app/"
\* urllib.parse.urljoin(base, url) for a relative route
urljoin(base, url) == <<base, url>>
\* dict.update
update(d, e) ==
  [k \in DOMAIN d \cup DOMAIN e |-> IF k \in DOMAIN e THEN e[k] ELSE d[k]]
RECURSIVE get_parents_classes_attrs(_, _)
\* get_parents_classes_attrs(bases): the attributes of the parents, those of
\* an earlier base over those of a later one (no attribute of the model is
\* callable or starts with two underscores)
get_parents_classes_attrs(dicts, bases) ==
  IF bases = <<>> THEN EmptyDict
  ELSE update(get_parents_classes_attrs(dicts, Tail(bases)), dicts[Head(bases)])
\* BasePageMeta.__new__(mcs, class_name, bases, attrs) in interpreter `it`:
\* the lists afterwards and the __dict__ of the new class
BasePageMeta_new(it, bases, attrs) ==
  LET all_attrs == update(get_parents_classes_attrs(it.dicts, bases), attrs)
      declared == "valid_urls" \in DOMAIN all_attrs
      lists1 == IF declared THEN it.lists ELSE Append(it.lists, <<>>)
      the_list == IF declared THEN all_attrs["valid_urls"] ELSE Len(lists1)
      lists2 == [lists1 EXCEPT ![the_list] = Append(@, all_attrs["page_url"])]
      joined == [i \in 1..Len(lists2[the_list]) |->
                   urljoin(base_url, lists2[the_list][i])]
  IN IF Falsy(all_attrs["app_name"]) \/ all_attrs["page_url"] = None
     THEN [exc |-> "BasePageException", lists |-> it.lists, new_attrs |-> EmptyDict]
     ELSE [exc |-> "none", lists |-> Append(lists2, joined),
           new_attrs |-> [_base_url |-> base_url,
                          page_url |-> urljoin(base_url, all_attrs["page_url"]),
                          valid_urls |-> Len(lists2) + 1]]
\* the class attributes of BasePage the metaclass reads (base.py:90-97);
\* valid_urls is the list object 1
BasePageDict == [app_name |-> None, page_url |-> None, valid_urls |-> 1]
\* the routes and the valid_urls a class body declares (or leaves out)
Routes == {"a", "b"}
Declarations ==
  {[declared |-> FALSE, urls |-> <<>>]}
  \cup {[declared |-> TRUE, urls |-> u] : u \in {<<>>, <<"c">>}}
ClassStatements == [page_url : Routes, valid_urls : Declarations]
InitClasses ==
  /\ NoPage
  /\ invoked = <<>>
  /\ outcome = [exc |-> "none", lists |-> << <<>> >>, dicts |-> [c \in {0} |-> BasePageDict]]
\* class <name>(BasePage, metaclass=BasePageMeta): app_name = "app";
\* page_url = ...; valid_urls = [...] (when declared): the body makes its
\* list, then the metaclass makes the class
DefineClass(stmt) ==
  /\ Len(invoked) < MaxClasses
  /\ outcome.exc = "none"
  /\ LET c == Len(invoked) + 1
         body == IF stmt.valid_urls.declared
                 THEN Append(outcome.lists, stmt.valid_urls.urls) ELSE outcome.lists
         attrs == [k \in {"app_name", "page_url"}
                         \cup (IF stmt.valid_urls.declared THEN {"valid_urls"} ELSE {}) |->
                     CASE k = "app_name" -> "app"
                       [] k = "page_url" -> stmt.page_url
                       [] OTHER -> Len(body)]
         made == BasePageMeta_new([lists |-> body, dicts |-> outcome.dicts],
                                  <<0>>, attrs)
     IN /\ invoked' = Append(invoked, stmt)
        /\ outcome' = [exc |-> made.exc, lists |-> made.lists,
                       dicts |-> [d \in 0..c |->
                                    IF d = c THEN made.new_attrs ELSE outcome.dicts[d]]]
  /\ UNCHANGED pagevars
NextClasses == \E stmt \in ClassStatements : DefineClass(stmt)
SpecClasses == InitClasses /\ [][NextClasses]_vars

\* the elements of a list
Elements(l) == {l[i] : i \in 1..Len(l)}
\* C40: the valid urls of every page class are exactly the valid_urls its
\* body declares and its own page_url, each joined with the base url: the
\* definition of other page classes, before or after, adds no url to them
\* (so check_opened of the class accepts no url that is only another's).
C40_ValidUrlsOwn ==
  \A c \in 1..Len(invoked) :
    Elements(outcome.lists[outcome.dicts[c]["valid_urls"]]) =
      {urljoin(base_url, u) :
         u \in Elements(invoked[c].valid_urls.urls) \cup {invoked[c].page_url}}

\* ------------------------------------- two page objects of one class
\* Two page objects of the page class with the table, alive together on the
\* one browser session E2EDriver hands out.  The browser and the heap of
\* handles are the page variables; `outcome` holds what the objects own: the
\* cache of each page (caches), the fields Table.__get__ assigns on the
\* Table object of the class (table: page, and _table, a handle or 0), the
\* page ListOfElementDescriptor.__get__ assigns on the grouped accessor of
\* the class (group), and the pages whose accessor the test holds (held).
Pages == {"A", "B"}
\* Table.__get__(page) on the Table object t of the class, page p with the
\* world w: `self.page = page` and `self._table = ...` are assigned when the
\* page is opened and its slot is empty, the latter once the root is found
table_get_on(t, p, w, head) ==
  LET builds == check_opened(w).exc = "none" /\ w.cached_attrs[TableSlot].kind = "none"
  IN {[r |-> r,
       table |-> IF ~builds THEN t
                 ELSE [page |-> p,
                       _table |-> IF Len(r.w.proxies) > Len(w.proxies)
                                  THEN Len(w.proxies) + 1 ELSE t._table]]
      : r \in table_get(w, head)}
\* ListOfElementDescriptor.__get__(page) on the accessor g of the class
grouped_get_on(g, p) == [g EXCEPT !.page = p]
\* the world page p runs in
PageWorld(p) == World([State EXCEPT !.cached_attrs = outcome.caches[p]])
\* what an operation of page p leaves: the browser and the heap, and the
\* cache of p
PageCommit(p, w, objects) ==
  /\ Len(w.proxies) <= 2 * MaxHandles
  /\ dom' = w.dom
  /\ tabs' = w.tabs
  /\ focus' = w.focus
  /\ opened_url' = w.url
  /\ proxies' = w.proxies
  /\ loaders' = w.loaders
  /\ head_search_attrs' = w.head_search_attrs
  /\ page_dict' = w.page_dict
  /\ outcome' = [objects EXCEPT !.caches[p] = w.cached_attrs]
  /\ UNCHANGED <<cached_attrs, invoked>>
InitPages ==
  /\ dom \in {d \in [TableLocators -> 0..MaxMatch] :
                \A L \in TableLocators : d[L] \in Matches(L)}
  /\ tabs = 1
  /\ focus = 1
  /\ opened_url \in Urls
  /\ proxies = <<>>
  /\ cached_attrs = [s \in TableSlots |-> NoneVal]
  /\ loaders = LoaderClasses
  /\ head_search_attrs = {}
  /\ page_dict = NoBindings
  /\ invoked = Nothing
  /\ outcome = [exc |-> "none",
                caches |-> [p \in Pages |-> [s \in TableSlots |-> NoneVal]],
                table |-> [page |-> None, _table |-> 0],
                group |-> [page |-> None],
                held |-> {}]
\* <page p>.table, while the table shows the header head
PageTable(p, head) ==
  \E x \in table_get_on(outcome.table, p, PageWorld(p), head) :
    PageCommit(p, x.r.w, [outcome EXCEPT !.table = x.table])
\* accessor = <page p>.<grouped accessor>
PageGrouped(p) ==
  PageCommit(p, PageWorld(p),
             [outcome EXCEPT !.group = grouped_get_on(@, p), !.held = @ \cup {p}])
\* <page p>.open()
PageOpen(p) ==
  \E r \in open(PageWorld(p), "None") : PageCommit(p, r.w, outcome)
NextPages ==
  \/ \E p \in Pages, head \in TableHeads : PageTable(p, head)
  \/ \E p \in Pages : PageGrouped(p)
  \/ \E p \in Pages : PageOpen(p)
SpecPages == InitPages /\ [][NextPages]_vars

\* C39: with two page objects of one class alive, the table a page holds in
\* its cache is bound to that page: its owning page is that page and its root
\* handle the one resolved for that page, whatever the other page resolved
\* since; and the grouped accessor the test obtained from a page has that
\* page as its page.
C39_TableStaysWithItsPage ==
  /\ \A p \in Pages :
       outcome.caches[p][TableSlot].kind = "table" =>
         /\ outcome.table.page = p
         /\ outcome.table._table = outcome.caches[p][TableSlot].hs[1]
  /\ \A p \in outcome.held : outcome.group.page = p

====
